---- MODULE Spec2Model ----
(***************************************************************************)
(* Model of ms_filter.py (KD0S-02/foodome): the filename relevance         *)
(* classifier, the food-key pattern generator, the per-dataset             *)
(* orchestrator process_single_dataset and the bounded parallel driver     *)
(* process_dataset_file.                                                   *)
(*                                                                         *)
(* Text is modelled as TLA+ strings and regular expressions are searched   *)
(* character by character, so that overlapping terms ("unprocessed"        *)
(* contains "processed", "_" is a word character for \b) behave as they do *)
(* under Python's re module.                                               *)
(***************************************************************************)
EXTENDS Integers, Sequences, FiniteSets, TLC

(***************************************************************************)
(* Regular expressions.  Every pattern of the source is a literal with an  *)
(* optional \b assertion at either end; it is kept as a record             *)
(*   [lit, wbS, wbE].                                                      *)
(* "pre[-]processing" is the literal "pre-processing", and                 *)
(* "hydroly[sz](?:ate|ed)" is listed as the four literals of its language. *)
(***************************************************************************)
Rx(s) == [lit |-> s, wbS |-> FALSE, wbE |-> FALSE]

EndRx(s) == [lit |-> s, wbS |-> FALSE, wbE |-> TRUE]

WordRx(s) == [lit |-> s, wbS |-> TRUE, wbE |-> TRUE]

UpperChars == "ABCDEFGHIJKLMNOPQRSTUVWXYZ"

LowerChars == "abcdefghijklmnopqrstuvwxyz"

DigitChars == "0123456789"

CharAt(s, i) == SubSeq(s, i, i)

CharsOf(s) == { CharAt(s, i) : i \in 1..Len(s) }

UpperSet == CharsOf(UpperChars)

\* str.lower() on one character
LowerChar(c) ==
  IF c \in UpperSet
  THEN CharAt(LowerChars, CHOOSE i \in 1..Len(UpperChars) : CharAt(UpperChars, i) = c)
  ELSE c

RECURSIVE ToLower(_)
\* str.lower()
ToLower(s) == IF s = "" THEN "" ELSE LowerChar(Head(s)) \o ToLower(Tail(s))

\* the characters \w matches: letters, digits and the underscore
WordChars == CharsOf(UpperChars) \cup CharsOf(LowerChars) \cup CharsOf(DigitChars) \cup {"_"}

IsWordAt(text, k) == k \in 1..Len(text) /\ CharAt(text, k) \in WordChars

\* \b at the gap in front of position p (p in 1..Len(text)+1)
WordBoundary(text, p) == IsWordAt(text, p - 1) # IsWordAt(text, p)

\* re.compile(term, re.IGNORECASE): case is folded on both sides
compile(rx) == [lit |-> ToLower(rx.lit), wbS |-> rx.wbS, wbE |-> rx.wbE]

\* rgx.search(text) for a compiled pattern and an already case-folded text
SearchFolded(rgx, text) ==
  \E i \in 1..(Len(text) - Len(rgx.lit) + 1) :
     /\ SubSeq(text, i, i + Len(rgx.lit) - 1) = rgx.lit
     /\ rgx.wbS => WordBoundary(text, i)
     /\ rgx.wbE => WordBoundary(text, i + Len(rgx.lit))

\* rgx.search(text)
search(rgx, text) == SearchFolded(rgx, ToLower(text))

\* any(rgx.search(text) for rgx in rgx_list)
AnySearch(rgx_list, text) ==
  LET t == ToLower(text) IN \E k \in DOMAIN rgx_list : SearchFolded(rgx_list[k], t)

RAW_TERMS ==
  <<
    WordRx("raw"), Rx("unprocessed"), Rx("fresh"), Rx("uncooked"),
    Rx("natural"), Rx("crude"), Rx("whole")
  >>

CONTROL_TERMS ==
  <<
    Rx("control"), Rx("ctrl"), Rx("cntrl"), Rx("ctl"), Rx("uninfected"),
    Rx("untreated"), Rx("baseline"), Rx("wild_type"), Rx("wt"),
    Rx("wildtype"), Rx("parental"), Rx("initial"), Rx("input"), EndRx("t0"),
    Rx("time0"), Rx("day0"), EndRx("0h"), EndRx("0hr"), Rx("zerohr"),
    Rx("0_hr"), Rx("pre_treatment"), Rx("before_processing"),
    Rx("pre-processing"), Rx("before-processing"), Rx("mock")
  >>

GENERIC_EDIBLE_PART_TERMS ==
  <<
    Rx("grain"), Rx("kernel"), Rx("seed"), Rx("berry"), Rx("endosperm"),
    Rx("embryo"), Rx("germ"), Rx("cereal"), Rx("fruit"), Rx("pulp"),
    Rx("flesh"), Rx("peel"), Rx("skin"), Rx("vegetable"), Rx("leafy_green"),
    Rx("root_veg"), Rx("tuber_veg"), Rx("edible_part"), Rx("sample")
  >>

PROCESSED_TERMS ==
  <<
    Rx("beer"), Rx("ale"), Rx("lager"), Rx("brew"), Rx("wort"), Rx("malt"),
    Rx("ferment"), Rx("sourdough"), Rx("bread"), Rx("pasta"), Rx("noodle"),
    Rx("cake"), Rx("biscuit"), Rx("cookie"), Rx("pastry"), Rx("syrup"),
    Rx("starch"), Rx("ethanol"), Rx("biofuel"), Rx("distillate"), Rx("mash"),
    Rx("slurry"), Rx("cook"), Rx("bake"), Rx("baked"), Rx("fried"),
    Rx("toast"), Rx("roast"), Rx("steam"), Rx("boil"), Rx("autoclave"),
    Rx("extract"), Rx("digest"), Rx("hydrolysate"), Rx("hydrolysed"),
    Rx("hydrolyzate"), Rx("hydrolyzed"), Rx("supernatant"), Rx("pellet"),
    Rx("flour"), Rx("meal"), Rx("grit"), Rx("semolina"), Rx("paste"),
    Rx("puree"), Rx("juice"), Rx("smoothie"), Rx("extrude"), Rx("puff"),
    Rx("flake"), Rx("instant"), Rx("processed")
  >>

NON_EDIBLE_PLANT_PARTS ==
  <<
    Rx("leaf"), Rx("leaves"), Rx("foliage"), Rx("stem"), Rx("stalk"),
    Rx("shoot"), Rx("stover"), Rx("culm"), Rx("root"), Rx("rhizome"),
    Rx("seedling"), Rx("sprout"), Rx("husk"), Rx("hull"), Rx("bran"),
    Rx("chaff"), Rx("glume"), Rx("lemma"), Rx("palea"), Rx("tassel"),
    Rx("silk"), Rx("anther"), Rx("pollen"), Rx("flower"), Rx("callus"),
    Rx("cell_culture"), Rx("suspension_culture"), Rx("plant_tissue")
  >>

TREATMENT_PATHOGEN_TERMS ==
  <<
    Rx("infect"), Rx("pathogen"), Rx("disease"), Rx("lesion"), Rx("symptom"),
    Rx("fungi"), Rx("bacteria"), Rx("virus"), Rx("oomycete"), Rx("nematode"),
    Rx("treat"), Rx("treatment"), Rx("stress"), Rx("elicitor"), Rx("induc"),
    Rx("pesticide"), Rx("herbicide"), Rx("fungicide"), Rx("insecticide"),
    Rx("fertilizer"), Rx("mutant"), Rx("transgenic"), Rx("gmo"),
    Rx("knockout"), Rx("overexpress")
  >>

NON_SAMPLE_QC_TERMS ==
  <<
    Rx("qc"), Rx("quality_control"), Rx("qa"), Rx("system_suitability"),
    Rx("sst"), Rx("blank"), Rx("solvent_blank"), Rx("method_blank"),
    Rx("instrument_blank"), Rx("reagent_blank"), Rx("wash"),
    Rx("equilibration"), Rx("conditioning"), Rx("gradient_test"),
    Rx("standard"), Rx("std"), Rx("ref_mat"), Rx("reference_material"),
    Rx("calib"), Rx("tune"), Rx("mass_cal"), Rx("msms_check"),
    Rx("tryptic_digest_std")
  >>

compile_regex_list(terms) == [k \in DOMAIN terms |-> compile(terms[k])]

COMPILED_RAW == compile_regex_list(RAW_TERMS)

COMPILED_CONTROL == compile_regex_list(CONTROL_TERMS)

COMPILED_GENERIC_EDIBLE_PART == compile_regex_list(GENERIC_EDIBLE_PART_TERMS)

COMPILED_PROCESSED == compile_regex_list(PROCESSED_TERMS)

COMPILED_NON_EDIBLE == compile_regex_list(NON_EDIBLE_PLANT_PARTS)

COMPILED_TREATMENT == compile_regex_list(TREATMENT_PATHOGEN_TERMS)

COMPILED_QC == compile_regex_list(NON_SAMPLE_QC_TERMS)

(***************************************************************************)
(* Filename heuristic filtering (ms_filter.py, lines 210-249).             *)
(***************************************************************************)
Verdict(k, r) == [keep |-> k, reason |-> r]

\* variant: the ACCEPTED rule is tried before the QC rule
check_filename_relevance_accepted_first(filename_lower, derived_food_name_regex_list, assessment_type) ==
  IF assessment_type = "ACCEPTED"
  THEN Verdict(TRUE, "accepted_study_non_qc_file")
  ELSE IF AnySearch(COMPILED_QC, filename_lower)
  THEN Verdict(FALSE, "qc_or_blank_file")
  ELSE Verdict(FALSE, "unknown_assessment_type_or_unmatched_condition_in_heuristic")

\* variant: the processed-product rule is applied to ACCEPTED studies as well
check_filename_relevance_accepted_filtered(filename_lower, derived_food_name_regex_list, assessment_type) ==
  IF AnySearch(COMPILED_QC, filename_lower)
  THEN Verdict(FALSE, "qc_or_blank_file")
  ELSE IF AnySearch(COMPILED_PROCESSED, filename_lower)
  THEN Verdict(FALSE, "maybe_processed_product_no_raw_control_signal")
  ELSE IF assessment_type = "ACCEPTED"
  THEN Verdict(TRUE, "accepted_study_non_qc_file")
  ELSE Verdict(FALSE, "unknown_assessment_type_or_unmatched_condition_in_heuristic")

\* variant: the processed-product rule ignores control and raw terms
check_filename_relevance_processed_strict(filename_lower, derived_food_name_regex_list, assessment_type) ==
  IF AnySearch(COMPILED_QC, filename_lower)
  THEN Verdict(FALSE, "qc_or_blank_file")
  ELSE IF assessment_type = "ACCEPTED"
  THEN Verdict(TRUE, "accepted_study_non_qc_file")
  ELSE IF assessment_type = "MAYBE" /\ AnySearch(COMPILED_PROCESSED, filename_lower)
  THEN Verdict(FALSE, "maybe_processed_product_no_raw_control_signal")
  ELSE IF assessment_type = "MAYBE"
          /\ (AnySearch(COMPILED_RAW, filename_lower) \/ AnySearch(COMPILED_CONTROL, filename_lower))
  THEN Verdict(TRUE, "maybe_no_food_match_but_strong_raw_control_signal")
  ELSE Verdict(FALSE, "maybe_lacks_sufficient_positive_signal")

\* variant: a MAYBE file is kept only when the food name is found in it
check_filename_relevance_needs_food_match(filename_lower, derived_food_name_regex_list, assessment_type) ==
  IF AnySearch(COMPILED_QC, filename_lower)
  THEN Verdict(FALSE, "qc_or_blank_file")
  ELSE IF assessment_type = "ACCEPTED"
  THEN Verdict(TRUE, "accepted_study_non_qc_file")
  ELSE IF assessment_type = "MAYBE"
  THEN
    IF /\ AnySearch(COMPILED_PROCESSED, filename_lower)
       /\ ~(AnySearch(COMPILED_CONTROL, filename_lower) \/ AnySearch(COMPILED_RAW, filename_lower))
    THEN Verdict(FALSE, "maybe_processed_product_no_raw_control_signal")
    ELSE IF /\ AnySearch(COMPILED_NON_EDIBLE, filename_lower)
            /\ ~(AnySearch(COMPILED_GENERIC_EDIBLE_PART, filename_lower)
                   \/ AnySearch(COMPILED_CONTROL, filename_lower))
    THEN Verdict(FALSE, "maybe_non_edible_part_no_edible_control_signal")
    ELSE IF /\ AnySearch(derived_food_name_regex_list, filename_lower)
            /\ (\/ AnySearch(COMPILED_RAW, filename_lower)
                \/ AnySearch(COMPILED_CONTROL, filename_lower)
                \/ AnySearch(COMPILED_GENERIC_EDIBLE_PART, filename_lower))
    THEN Verdict(TRUE, "maybe_food_match_with_raw_control_or_edible_term")
    ELSE Verdict(FALSE, "maybe_lacks_sufficient_positive_signal")
  ELSE Verdict(FALSE, "unknown_assessment_type_or_unmatched_condition_in_heuristic")

\* variant: a treatment file is kept only with a raw and a control term
check_filename_relevance_treatment_needs_both(filename_lower, derived_food_name_regex_list, assessment_type) ==
  IF AnySearch(COMPILED_QC, filename_lower)
  THEN Verdict(FALSE, "qc_or_blank_file")
  ELSE IF assessment_type = "ACCEPTED"
  THEN Verdict(TRUE, "accepted_study_non_qc_file")
  ELSE IF assessment_type = "MAYBE"
  THEN
    LET food_match == AnySearch(derived_food_name_regex_list, filename_lower)
        has_treatment_term == AnySearch(COMPILED_TREATMENT, filename_lower)
        has_control_term == AnySearch(COMPILED_CONTROL, filename_lower)
        has_raw_term == AnySearch(COMPILED_RAW, filename_lower)
        has_generic_edible_term == AnySearch(COMPILED_GENERIC_EDIBLE_PART, filename_lower)
    IN
    IF /\ AnySearch(COMPILED_PROCESSED, filename_lower)
       /\ ~(AnySearch(COMPILED_CONTROL, filename_lower) \/ AnySearch(COMPILED_RAW, filename_lower))
    THEN Verdict(FALSE, "maybe_processed_product_no_raw_control_signal")
    ELSE IF /\ AnySearch(COMPILED_NON_EDIBLE, filename_lower)
            /\ ~(AnySearch(COMPILED_GENERIC_EDIBLE_PART, filename_lower)
                   \/ AnySearch(COMPILED_CONTROL, filename_lower))
    THEN Verdict(FALSE, "maybe_non_edible_part_no_edible_control_signal")
    ELSE IF food_match /\ (has_raw_term \/ has_control_term \/ has_generic_edible_term)
    THEN Verdict(TRUE, "maybe_food_match_with_raw_control_or_edible_term")
    ELSE IF has_raw_term \/ has_control_term
    THEN IF has_treatment_term /\ ~(has_raw_term /\ has_control_term)
         THEN Verdict(FALSE, "maybe_treatment_file_no_food_match_lacks_explicit_control_raw")
         ELSE Verdict(TRUE, "maybe_no_food_match_but_strong_raw_control_signal")
    ELSE IF has_treatment_term
              /\ ~(has_control_term \/ has_raw_term \/ has_generic_edible_term \/ food_match)
    THEN Verdict(FALSE, "maybe_treatment_file_lacks_any_positive_signal")
    ELSE Verdict(FALSE, "maybe_lacks_sufficient_positive_signal")
  ELSE Verdict(FALSE, "unknown_assessment_type_or_unmatched_condition_in_heuristic")

\* variant: a study assessed PENDING is handled as an ACCEPTED one
check_filename_relevance_pending_as_accepted(filename_lower, derived_food_name_regex_list, assessment_type) ==
  IF AnySearch(COMPILED_QC, filename_lower)
  THEN Verdict(FALSE, "qc_or_blank_file")
  ELSE IF assessment_type = "ACCEPTED"
  THEN Verdict(TRUE, "accepted_study_non_qc_file")
  ELSE IF assessment_type = "MAYBE"
  THEN
    LET food_match == AnySearch(derived_food_name_regex_list, filename_lower)
        has_treatment_term == AnySearch(COMPILED_TREATMENT, filename_lower)
        has_control_term == AnySearch(COMPILED_CONTROL, filename_lower)
        has_raw_term == AnySearch(COMPILED_RAW, filename_lower)
        has_generic_edible_term == AnySearch(COMPILED_GENERIC_EDIBLE_PART, filename_lower)
    IN
    IF /\ AnySearch(COMPILED_PROCESSED, filename_lower)
       /\ ~(AnySearch(COMPILED_CONTROL, filename_lower) \/ AnySearch(COMPILED_RAW, filename_lower))
    THEN Verdict(FALSE, "maybe_processed_product_no_raw_control_signal")
    ELSE IF /\ AnySearch(COMPILED_NON_EDIBLE, filename_lower)
            /\ ~(AnySearch(COMPILED_GENERIC_EDIBLE_PART, filename_lower)
                   \/ AnySearch(COMPILED_CONTROL, filename_lower))
    THEN Verdict(FALSE, "maybe_non_edible_part_no_edible_control_signal")
    ELSE IF food_match /\ (has_raw_term \/ has_control_term \/ has_generic_edible_term)
    THEN Verdict(TRUE, "maybe_food_match_with_raw_control_or_edible_term")
    ELSE IF has_raw_term \/ has_control_term
    THEN IF has_treatment_term /\ ~(has_raw_term \/ has_control_term)
         THEN Verdict(FALSE, "maybe_treatment_file_no_food_match_lacks_explicit_control_raw")
         ELSE Verdict(TRUE, "maybe_no_food_match_but_strong_raw_control_signal")
    ELSE IF has_treatment_term
              /\ ~(has_control_term \/ has_raw_term \/ has_generic_edible_term \/ food_match)
    THEN Verdict(FALSE, "maybe_treatment_file_lacks_any_positive_signal")
    ELSE Verdict(FALSE, "maybe_lacks_sufficient_positive_signal")
  ELSE IF assessment_type = "PENDING"
  THEN Verdict(TRUE, "accepted_study_non_qc_file")
  ELSE Verdict(FALSE, "unknown_assessment_type_or_unmatched_condition_in_heuristic")

\* variant: a treatment term without a control term rejects the file
check_filename_relevance_treatment_rejects(filename_lower, derived_food_name_regex_list, assessment_type) ==
  IF AnySearch(COMPILED_QC, filename_lower)
  THEN Verdict(FALSE, "qc_or_blank_file")
  ELSE IF assessment_type = "ACCEPTED"
  THEN Verdict(TRUE, "accepted_study_non_qc_file")
  ELSE IF assessment_type = "MAYBE"
  THEN
    LET food_match == AnySearch(derived_food_name_regex_list, filename_lower)
        has_treatment_term == AnySearch(COMPILED_TREATMENT, filename_lower)
        has_control_term == AnySearch(COMPILED_CONTROL, filename_lower)
        has_raw_term == AnySearch(COMPILED_RAW, filename_lower)
        has_generic_edible_term == AnySearch(COMPILED_GENERIC_EDIBLE_PART, filename_lower)
    IN
    IF /\ AnySearch(COMPILED_PROCESSED, filename_lower)
       /\ ~(AnySearch(COMPILED_CONTROL, filename_lower) \/ AnySearch(COMPILED_RAW, filename_lower))
    THEN Verdict(FALSE, "maybe_processed_product_no_raw_control_signal")
    ELSE IF /\ AnySearch(COMPILED_NON_EDIBLE, filename_lower)
            /\ ~(AnySearch(COMPILED_GENERIC_EDIBLE_PART, filename_lower)
                   \/ AnySearch(COMPILED_CONTROL, filename_lower))
    THEN Verdict(FALSE, "maybe_non_edible_part_no_edible_control_signal")
    ELSE IF has_treatment_term /\ ~has_control_term
    THEN Verdict(FALSE, "maybe_treatment_file_lacks_any_positive_signal")
    ELSE IF food_match /\ (has_raw_term \/ has_control_term \/ has_generic_edible_term)
    THEN Verdict(TRUE, "maybe_food_match_with_raw_control_or_edible_term")
    ELSE IF has_raw_term \/ has_control_term
    THEN IF has_treatment_term /\ ~(has_raw_term \/ has_control_term)
         THEN Verdict(FALSE, "maybe_treatment_file_no_food_match_lacks_explicit_control_raw")
         ELSE Verdict(TRUE, "maybe_no_food_match_but_strong_raw_control_signal")
    ELSE IF has_treatment_term
              /\ ~(has_control_term \/ has_raw_term \/ has_generic_edible_term \/ food_match)
    THEN Verdict(FALSE, "maybe_treatment_file_lacks_any_positive_signal")
    ELSE Verdict(FALSE, "maybe_lacks_sufficient_positive_signal")
  ELSE Verdict(FALSE, "unknown_assessment_type_or_unmatched_condition_in_heuristic")

check_filename_relevance(filename_lower, derived_food_name_regex_list, assessment_type) ==
  IF AnySearch(COMPILED_QC, filename_lower)
  THEN Verdict(FALSE, "qc_or_blank_file")
  ELSE IF assessment_type = "ACCEPTED"
  THEN Verdict(TRUE, "accepted_study_non_qc_file")
  ELSE IF assessment_type = "MAYBE"
  THEN
    LET food_match == AnySearch(derived_food_name_regex_list, filename_lower)
        has_treatment_term == AnySearch(COMPILED_TREATMENT, filename_lower)
        has_control_term == AnySearch(COMPILED_CONTROL, filename_lower)
        has_raw_term == AnySearch(COMPILED_RAW, filename_lower)
        has_generic_edible_term == AnySearch(COMPILED_GENERIC_EDIBLE_PART, filename_lower)
    IN
    IF /\ AnySearch(COMPILED_PROCESSED, filename_lower)
       /\ ~(AnySearch(COMPILED_CONTROL, filename_lower) \/ AnySearch(COMPILED_RAW, filename_lower))
    THEN Verdict(FALSE, "maybe_processed_product_no_raw_control_signal")
    ELSE IF /\ AnySearch(COMPILED_NON_EDIBLE, filename_lower)
            /\ ~(AnySearch(COMPILED_GENERIC_EDIBLE_PART, filename_lower)
                   \/ AnySearch(COMPILED_CONTROL, filename_lower))
    THEN Verdict(FALSE, "maybe_non_edible_part_no_edible_control_signal")
    ELSE IF food_match /\ (has_raw_term \/ has_control_term \/ has_generic_edible_term)
    THEN Verdict(TRUE, "maybe_food_match_with_raw_control_or_edible_term")
    ELSE IF has_raw_term \/ has_control_term
    THEN IF has_treatment_term /\ ~(has_raw_term \/ has_control_term)
         THEN Verdict(FALSE, "maybe_treatment_file_no_food_match_lacks_explicit_control_raw")
         ELSE Verdict(TRUE, "maybe_no_food_match_but_strong_raw_control_signal")
    ELSE IF has_treatment_term
              /\ ~(has_control_term \/ has_raw_term \/ has_generic_edible_term \/ food_match)
    THEN Verdict(FALSE, "maybe_treatment_file_lacks_any_positive_signal")
    ELSE Verdict(FALSE, "maybe_lacks_sufficient_positive_signal")
  ELSE Verdict(FALSE, "unknown_assessment_type_or_unmatched_condition_in_heuristic")

(***************************************************************************)
(* Food-key pattern generator (ms_filter.py, lines 254-262).  Pattern      *)
(* strings are built as text, exactly as the source builds them, and then  *)
(* compiled.                                                               *)
(***************************************************************************)
RECURSIVE SplitFrom(_, _, _)
\* str.split('_'): cur is the piece being read, acc the pieces read so far
SplitFrom(s, cur, acc) ==
  IF s = "" THEN Append(acc, cur)
  ELSE IF Head(s) = "_" THEN SplitFrom(Tail(s), "", Append(acc, cur))
  ELSE SplitFrom(Tail(s), cur \o Head(s), acc)

split_underscore(s) == SplitFrom(s, "", <<>>)

\* characters re.escape leaves alone
EscapeSafeChars == CharsOf(UpperChars) \cup CharsOf(LowerChars) \cup CharsOf(DigitChars) \cup {"_"}

RECURSIVE re_escape(_)
\* re.escape(s): a backslash in front of every character that is not safe
re_escape(s) ==
  IF s = "" THEN ""
  ELSE (IF Head(s) \in EscapeSafeChars THEN Head(s) ELSE "\\" \o Head(s)) \o re_escape(Tail(s))

RECURSIVE re_unescape(_)
\* the literal an escaped pattern body matches
re_unescape(p) ==
  IF p = "" THEN ""
  ELSE IF Head(p) = "\\" /\ Len(p) >= 2 THEN CharAt(p, 2) \o re_unescape(SubSeq(p, 3, Len(p)))
  ELSE Head(p) \o re_unescape(Tail(p))

\* re.compile(rs, re.IGNORECASE) for a pattern string of the form
\* \b<escaped literal>\b; the compiled pattern keeps its string (.pattern)
compile_word_pattern(rs) ==
  [pattern |-> rs,
   lit |-> ToLower(re_unescape(SubSeq(rs, 3, Len(rs) - 2))), wbS |-> TRUE, wbE |-> TRUE]

\* list(set(xs)) in first-occurrence order; the source sorts the set, and no
\* consumer depends on the order (any(...) and a log line)
Dedup(xs) ==
  LET keep[i \in 0..Len(xs)] ==
        IF i = 0 THEN <<>>
        ELSE IF \E j \in 1..(i - 1) : xs[j] = xs[i] THEN keep[i - 1]
        ELSE Append(keep[i - 1], xs[i])
  IN keep[Len(xs)]

\* variant: the pattern strings are not made unique
get_derived_food_name_regex_list_with_repeats(food_item_key_str) ==
  IF food_item_key_str = "" THEN <<>>
  ELSE
    LET LongEnough(part) == Len(part) > 2
        raw_parts == SelectSeq(split_underscore(food_item_key_str), LongEnough)
        regex_strings ==
          Append([k \in DOMAIN raw_parts |-> "\\b" \o re_escape(raw_parts[k]) \o "\\b"],
                 "\\b" \o re_escape(food_item_key_str) \o "\\b")
    IN [k \in DOMAIN regex_strings |-> compile_word_pattern(regex_strings[k])]

\* variant: a token of two characters is long enough
get_derived_food_name_regex_list_two_chars(food_item_key_str) ==
  IF food_item_key_str = "" THEN <<>>
  ELSE
    LET LongEnough(part) == Len(part) > 1
        raw_parts == SelectSeq(split_underscore(food_item_key_str), LongEnough)
        regex_strings ==
          Append([k \in DOMAIN raw_parts |-> "\\b" \o re_escape(raw_parts[k]) \o "\\b"],
                 "\\b" \o re_escape(food_item_key_str) \o "\\b")
        unique_regex_strings == Dedup(regex_strings)
    IN [k \in DOMAIN unique_regex_strings |-> compile_word_pattern(unique_regex_strings[k])]

get_derived_food_name_regex_list(food_item_key_str) ==
  IF food_item_key_str = "" THEN <<>>
  ELSE
    LET LongEnough(part) == Len(part) > 2
        raw_parts == SelectSeq(split_underscore(food_item_key_str), LongEnough)
        parts == [k \in DOMAIN raw_parts |-> re_escape(raw_parts[k])]
        full_key_escaped == re_escape(food_item_key_str)
        part_strings == [k \in DOMAIN parts |-> "\\b" \o parts[k] \o "\\b"]
        regex_strings ==
          IF \A k \in DOMAIN part_strings : part_strings[k] # full_key_escaped
          THEN Append(part_strings, "\\b" \o full_key_escaped \o "\\b")
          ELSE part_strings
        unique_regex_strings == Dedup(regex_strings)
    IN [k \in DOMAIN unique_regex_strings |-> compile_word_pattern(unique_regex_strings[k])]

(***************************************************************************)
(* JSON values of a dataset record.  A key that is missing from the        *)
(* dictionary has the value Absent.                                        *)
(***************************************************************************)
JStr(s) == [str |-> s]

JInt(n) == [int |-> n]

JList(xs) == [list |-> xs]

JNull == [null |-> TRUE]

Absent == [absent |-> TRUE]

IsStr(v) == DOMAIN v = {"str"}

\* dict.get(key, default)
Get(v, default) == IF v = Absent THEN default ELSE v

\* Python truthiness of a JSON value
Truthy(v) ==
  IF IsStr(v) THEN v.str # ""
  ELSE IF DOMAIN v = {"int"} THEN v.int # 0
  ELSE IF DOMAIN v = {"list"} THEN v.list # <<>>
  ELSE FALSE

\* str.startswith(prefix)
startswith(s, prefix) == Len(s) >= Len(prefix) /\ SubSeq(s, 1, Len(prefix)) = prefix

\* str.endswith(suffix)
endswith(s, suffix) ==
  Len(s) >= Len(suffix) /\ SubSeq(s, Len(s) - Len(suffix) + 1, Len(s)) = suffix

WhitespaceChars == {" ", "\t", "\n", "\r"}

RECURSIVE lstrip(_)
lstrip(s) == IF s # "" /\ Head(s) \in WhitespaceChars THEN lstrip(Tail(s)) ELSE s

RECURSIVE rstrip(_)
rstrip(s) ==
  IF s # "" /\ CharAt(s, Len(s)) \in WhitespaceChars THEN rstrip(SubSeq(s, 1, Len(s) - 1)) ELSE s

\* str.strip()
strip(s) == lstrip(rstrip(s))

\* the positions of character c in s
PositionsOf(s, c) == { i \in 1..Len(s) : CharAt(s, i) = c }

MaxOf(S) == CHOOSE m \in S : \A k \in S : k <= m

MinOf(S) == CHOOSE m \in S : \A k \in S : m <= k

\* os.path.basename(path)
basename(path) ==
  IF PositionsOf(path, "/") = {} THEN path
  ELSE SubSeq(path, MaxOf(PositionsOf(path, "/")) + 1, Len(path))

\* os.path.splitext(name)[1]: the extension starts at the last dot, unless
\* only dots precede it
file_ext_of(name) ==
  IF PositionsOf(name, ".") = {} THEN ""
  ELSE LET d == MaxOf(PositionsOf(name, "."))
       IN IF \A i \in 1..(d - 1) : CharAt(name, i) = "." THEN ""
          ELSE SubSeq(name, d, Len(name))

\* urlparse(ftp_link) for a link that starts with ftp://, as (netloc, path)
parse_ftp_path(ftp_link) ==
  LET rest == SubSeq(ftp_link, 7, Len(ftp_link))
      slashes == PositionsOf(rest, "/")
  IN IF slashes = {} THEN [server |-> rest, path |-> ""]
     ELSE [server |-> SubSeq(rest, 1, MinOf(slashes) - 1),
           path |-> SubSeq(rest, MinOf(slashes), Len(rest))]

\* int(text): digits after an optional sign, or ValueError
DigitValue(c) == (CHOOSE i \in 1..Len(DigitChars) : CharAt(DigitChars, i) = c) - 1

RECURSIVE DigitsValue(_, _)
DigitsValue(s, acc) ==
  IF s = "" THEN acc ELSE DigitsValue(Tail(s), 10 * acc + DigitValue(Head(s)))

IsDigits(text) ==
  text # "" /\ \A i \in 1..Len(text) : CharAt(text, i) \in CharsOf(DigitChars)

parse_int(text) ==
  IF IsDigits(text) THEN [ok |-> TRUE, value |-> DigitsValue(text, 0)]
  ELSE IF text # "" /\ Head(text) = "-" /\ IsDigits(Tail(text))
  THEN [ok |-> TRUE, value |-> 0 - DigitsValue(Tail(text), 0)]
  ELSE IF text # "" /\ Head(text) = "+" /\ IsDigits(Tail(text))
  THEN [ok |-> TRUE, value |-> DigitsValue(Tail(text), 0)]
  ELSE [ok |-> FALSE, value |-> 0]

(***************************************************************************)
(* Configuration (ms_filter.py, lines 20-25).                              *)
(***************************************************************************)
MAX_FILES_FOR_MS2_COUNTING == 10

ENABLE_MSCONVERT_PROCESSING == FALSE

SUPPORTED_EXTENSIONS_LOWER == {".mzxml", ".mgf", ".mzml", ".cdf"}

MSCONVERT_SUPPORTED_RAW_EXTENSIONS == {".raw", ".wiff", ".d"}

TEXT_BASED_EXTENSIONS == {".mzxml", ".mgf", ".mzml", ".cdf"}

(***************************************************************************)
(* External commands.  A command run is a record                           *)
(*   [run, returncode, stdout]                                             *)
(* with run = "completed", "timeout" (subprocess.TimeoutExpired) or        *)
(* "oserror" (subprocess.run itself raises); the stdout of lftp is kept as *)
(* its lines.                                                              *)
(***************************************************************************)
Completed(code, out) == [run |-> "completed", returncode |-> code, stdout |-> out]

TimedOut == [run |-> "timeout", returncode |-> 0, stdout |-> ""]

\* subprocess.run raises OSError: the shell could not be started
RunRaises == [run |-> "oserror", returncode |-> 0, stdout |-> ""]

\* lines 112-125: the files of the lftp output that have a supported extension
FoundFiles(lines) ==
  LET found[i \in 0..Len(lines)] ==
        IF i = 0 THEN <<>>
        ELSE LET full_ftp_path == strip(lines[i])
                 name == basename(full_ftp_path)
                 file_ext == file_ext_of(name)
             IN IF full_ftp_path = "" \/ endswith(full_ftp_path, "/") THEN found[i - 1]
                ELSE IF ToLower(file_ext) \in SUPPORTED_EXTENSIONS_LOWER
                THEN Append(found[i - 1],
                            [ftp_full_path |-> full_ftp_path, filename |-> name,
                             file_ext_lower |-> ToLower(file_ext)])
                ELSE found[i - 1]
  IN found[Len(lines)]

\* list_mass_spec_files_recursively, given the run of the lftp command; a
\* run that raises is handled by the caller
list_mass_spec_files_recursively(lftp) ==
  IF lftp.run = "timeout" THEN <<>>
  ELSE IF lftp.returncode # 0 THEN <<>>
  ELSE FoundFiles(lftp.stdout)

\* variant: a count that cannot be parsed is reported as -1
count_ms2_spectra_in_text_file_via_ftp_minus_one(file_ext_lower, curl) ==
  IF file_ext_lower \notin {".mzxml", ".mgf", ".mzml", ".cdf"} THEN 0
  ELSE IF curl.run = "timeout" THEN 0
  ELSE IF curl.returncode > 1 THEN 0
  ELSE IF parse_int(strip(curl.stdout)).ok THEN parse_int(strip(curl.stdout)).value
  ELSE 0 - 1

\* count_ms2_spectra_in_text_file_via_ftp, given the run of curl | grep -c
count_ms2_spectra_in_text_file_via_ftp(file_ext_lower, curl) ==
  IF file_ext_lower \notin {".mzxml", ".mgf", ".mzml", ".cdf"} THEN 0
  ELSE IF curl.run = "timeout" THEN 0
  ELSE IF curl.returncode > 1 THEN 0
  ELSE IF parse_int(strip(curl.stdout)).ok THEN parse_int(strip(curl.stdout)).value
  ELSE 0

(***************************************************************************)
(* Per-dataset orchestrator (ms_filter.py, lines 264-372).                 *)
(*                                                                         *)
(* process_single_dataset runs in a pool process on its own copy of the    *)
(* dataset record.  It is modelled in steps: Prepare is lines 265-340 (up  *)
(* to the choice of the files to count), CountOne one pass of the loop of  *)
(* lines 345-365, Finish lines 367-372.                                    *)
(***************************************************************************)
\* body(x) with x evaluated once
Bind(x, body(_)) == CHOOSE r \in { body(v) : v \in {x} } : TRUE

\* text.lower() of a JSON value: AttributeError unless it is a string
CanLower(v) == IsStr(v)

AttributeErrorOf(v, attr) ==
  (IF v = JNull THEN "'NoneType'" ELSE IF DOMAIN v = {"int"} THEN "'int'" ELSE "'list'")
    \o " object has no attribute '" \o attr \o "'"

\* how Prepare ends; list_calls is the number of listing commands it ran
Returned(item) ==
  [outcome |-> "return", item |-> item, files |-> <<>>, message |-> "", list_calls |-> 0]

Raised(item, msg) ==
  [outcome |-> "raise", item |-> item, files |-> <<>>, message |-> msg, list_calls |-> 0]

Continue(item, files) ==
  [outcome |-> "continue", item |-> item, files |-> files, message |-> "", list_calls |-> 0]

\* lines 300-301 for every listed file
Verdicts(all_ftp_files_info, derived_food_name_regex, llm_assessment) ==
  [i \in DOMAIN all_ftp_files_info |->
     check_filename_relevance(ToLower(all_ftp_files_info[i].filename),
                              derived_food_name_regex, llm_assessment)]

\* line 305
is_msconvert_required(file_info) ==
  file_info.file_ext_lower \in MSCONVERT_SUPPORTED_RAW_EXTENSIONS

\* lines 303-323: the files that pass the heuristic and can be counted
CandidateFiles(all_ftp_files_info, verdicts) ==
  LET cand[i \in 0..Len(all_ftp_files_info)] ==
        IF i = 0 THEN <<>>
        ELSE IF /\ verdicts[i].keep
                /\ ~(is_msconvert_required(all_ftp_files_info[i]) /\ ~ENABLE_MSCONVERT_PROCESSING)
        THEN Append(cand[i - 1],
                    [ftp_file_path |-> all_ftp_files_info[i].ftp_full_path,
                     filename |-> all_ftp_files_info[i].filename,
                     file_ext_lower |-> all_ftp_files_info[i].file_ext_lower,
                     heuristic_match_reason |-> verdicts[i].reason,
                     ms2_spectra_in_file |-> 0])
        ELSE cand[i - 1]
  IN cand[Len(all_ftp_files_info)]

\* lines 307-308: the relevant files that need msconvert while it is disabled
UnsupportedSkipped(all_ftp_files_info, verdicts) ==
  Cardinality({ i \in DOMAIN all_ftp_files_info :
     /\ verdicts[i].keep
     /\ is_msconvert_required(all_ftp_files_info[i])
     /\ ~ENABLE_MSCONVERT_PROCESSING })

\* 'text' in reason.lower()
Contains(s, t) ==
  \E text \in {s} : \E i \in 1..(Len(text) - Len(t) + 1) : SubSeq(text, i, i + Len(t) - 1) = t

\* the sort key of line 339
SortKey(x) ==
  IF \E reason_lower \in {ToLower(x.heuristic_match_reason)} :
       Contains(reason_lower, "control") \/ Contains(reason_lower, "raw")
  THEN 0 ELSE 1

RECURSIVE Reversed(_)
Reversed(xs) == IF xs = <<>> THEN <<>> ELSE Append(Reversed(Tail(xs)), Head(xs))

\* variant: a sort that puts files of the same key in reverse order
SortedByKey_reversing(xs) ==
  LET IsFirst(x) == SortKey(x) = 0
      IsLast(x) == SortKey(x) = 1
  IN Reversed(SelectSeq(xs, IsFirst)) \o Reversed(SelectSeq(xs, IsLast))

\* sorted(xs, key=SortKey): the sort is stable and the key is 0 or 1
SortedByKey(xs) ==
  LET IsFirst(x) == SortKey(x) = 0
      IsLast(x) == SortKey(x) = 1
  IN SelectSeq(xs, IsFirst) \o SelectSeq(xs, IsLast)

\* variant: no limit on the number of files
FilesToProcess_uncapped(candidate_files_for_ms2) == candidate_files_for_ms2

\* variant: the limit keeps the first files of the listing
FilesToProcess_listing_order(candidate_files_for_ms2) ==
  IF Len(candidate_files_for_ms2) > MAX_FILES_FOR_MS2_COUNTING
  THEN SubSeq(candidate_files_for_ms2, 1, MAX_FILES_FOR_MS2_COUNTING)
  ELSE candidate_files_for_ms2

\* lines 334-340
FilesToProcess(candidate_files_for_ms2) ==
  IF Len(candidate_files_for_ms2) > MAX_FILES_FOR_MS2_COUNTING
  THEN SubSeq(SortedByKey(candidate_files_for_ms2), 1, MAX_FILES_FOR_MS2_COUNTING)
  ELSE candidate_files_for_ms2

\* lines 270-272
ResetResults(item) ==
  [item EXCEPT !.selected_files_for_ms2_analysis = JList(<<>>),
               !.total_ms2_spectra_from_selected_files = JInt(0),
               !.unsupported_files_skipped_count = JInt(0)]

WithSourceType(item, tag) == [item EXCEPT !.ms2_count_source_type = JStr(tag)]

\* lines 325-340, with the listed files and their verdicts at hand
SelectFrom(item, llm_assessment, all_ftp_files_info, verdicts) ==
  LET counted == [item EXCEPT !.unsupported_files_skipped_count =
                    JInt(UnsupportedSkipped(all_ftp_files_info, verdicts))]
  IN Bind(CandidateFiles(all_ftp_files_info, verdicts),
          LAMBDA candidate_files_for_ms2 :
            IF candidate_files_for_ms2 = <<>>
            THEN IF CanLower(llm_assessment)
                 THEN Returned(WithSourceType(counted,
                        "no_processable_files_passed_heuristics_" \o ToLower(llm_assessment.str)))
                 ELSE Raised(counted, AttributeErrorOf(llm_assessment, "lower"))
            ELSE Continue(counted, FilesToProcess(candidate_files_for_ms2)))

\* lines 291-340, with the listed files at hand
ClassifyAndSelect(item, llm_assessment, food_key, all_ftp_files_info) ==
  IF all_ftp_files_info = <<>>
  THEN IF CanLower(llm_assessment)
       THEN Returned(WithSourceType(item, "ftp_no_files_found_" \o ToLower(llm_assessment.str)))
       ELSE Raised(item, AttributeErrorOf(llm_assessment, "lower"))
  ELSE Bind(Verdicts(all_ftp_files_info, get_derived_food_name_regex_list(food_key),
                     IF IsStr(llm_assessment) THEN llm_assessment.str ELSE ""),
            LAMBDA verdicts : SelectFrom(item, llm_assessment, all_ftp_files_info, verdicts))

\* variant: the timeout of the listing command is not caught
ListAndSelect_timeout_raises(item, llm_assessment, food_key, lftp) ==
  IF lftp.run = "oserror" THEN Raised(item, "[Errno 12] Cannot allocate memory")
  ELSE IF lftp.run = "timeout" THEN Raised(item, "Command timed out after 600 seconds")
  ELSE Bind(list_mass_spec_files_recursively(lftp),
            LAMBDA all_ftp_files_info :
              ClassifyAndSelect(item, llm_assessment, food_key, all_ftp_files_info))

\* lines 285-340, entered with a valid ftp link; lftp is the run of the
\* listing command
ListAndSelect(item, llm_assessment, food_key, lftp) ==
  IF lftp.run = "oserror" THEN Raised(item, "[Errno 12] Cannot allocate memory")
  ELSE Bind(list_mass_spec_files_recursively(lftp),
            LAMBDA all_ftp_files_info :
              ClassifyAndSelect(item, llm_assessment, food_key, all_ftp_files_info))

\* variant: the assessment is looked at only after the link
Prepare_link_before_assessment(dataset_info_item, food_key, lftp) ==
  LET llm_assessment == Get(dataset_info_item.llm_assessment, JStr("REJECTED"))
      item == ResetResults(dataset_info_item)
      ftp_link == Get(dataset_info_item.ftp_link, JStr(""))
  IN
  IF ~Truthy(ftp_link) THEN Returned(WithSourceType(item, "no_ftp_link"))
  ELSE IF ~IsStr(ftp_link) THEN Raised(item, AttributeErrorOf(ftp_link, "startswith"))
  ELSE IF ~startswith(ftp_link.str, "ftp://") THEN Returned(WithSourceType(item, "no_ftp_link"))
  ELSE [ListAndSelect(item, llm_assessment, food_key, lftp) EXCEPT !.list_calls = 1]

\* variant: any non-empty link is taken to be an ftp link
Prepare_any_link(dataset_info_item, food_key, lftp) ==
  LET llm_assessment == Get(dataset_info_item.llm_assessment, JStr("REJECTED"))
      item == ResetResults(dataset_info_item)
      ftp_link == Get(dataset_info_item.ftp_link, JStr(""))
  IN
  IF llm_assessment = JStr("REJECTED") THEN Returned(WithSourceType(item, "rejected_by_llm"))
  ELSE IF ~Truthy(ftp_link) THEN Returned(WithSourceType(item, "no_ftp_link"))
  ELSE IF ~IsStr(ftp_link) THEN Raised(item, AttributeErrorOf(ftp_link, "startswith"))
  ELSE [ListAndSelect(item, llm_assessment, food_key, lftp) EXCEPT !.list_calls = 1]

\* lines 265-340
Prepare(dataset_info_item, food_key, lftp) ==
  LET llm_assessment == Get(dataset_info_item.llm_assessment, JStr("REJECTED"))
      item == ResetResults(dataset_info_item)
      ftp_link == Get(dataset_info_item.ftp_link, JStr(""))
  IN
  IF llm_assessment = JStr("REJECTED") THEN Returned(WithSourceType(item, "rejected_by_llm"))
  ELSE IF ~Truthy(ftp_link) THEN Returned(WithSourceType(item, "no_ftp_link"))
  ELSE IF ~IsStr(ftp_link) THEN Raised(item, AttributeErrorOf(ftp_link, "startswith"))
  ELSE IF ~startswith(ftp_link.str, "ftp://") THEN Returned(WithSourceType(item, "no_ftp_link"))
  ELSE [ListAndSelect(item, llm_assessment, food_key, lftp) EXCEPT !.list_calls = 1]

\* lines 346-363 for one selected file; curl is the run of the count command
CountFile(selected_file_info, curl) ==
  IF selected_file_info.file_ext_lower \in TEXT_BASED_EXTENSIONS
  THEN count_ms2_spectra_in_text_file_via_ftp(selected_file_info.file_ext_lower, curl)
  ELSE 0

\* lines 367-369
Finish(item, llm_assessment, processed_file_details, total_ms2_spectra_for_study) ==
  WithSourceType(
    [item EXCEPT !.selected_files_for_ms2_analysis = JList(processed_file_details),
                 !.total_ms2_spectra_from_selected_files = JInt(total_ms2_spectra_for_study)],
    "ftp_analysis_" \o ToLower(llm_assessment.str) \o "_heuristic_filtered")

(***************************************************************************)
(* Inputs of the driver: dataset records and, for each, what the remote   *)
(* side answers.                                                           *)
(***************************************************************************)
Record(study_id, llm_assessment, ftp_link) ==
  [study_id |-> study_id,
   study_title |-> JStr("Metabolite profiling"),
   llm_assessment |-> llm_assessment,
   llm_reason |-> JStr("as assessed"),
   ftp_link |-> ftp_link,
   selected_files_for_ms2_analysis |-> Absent,
   total_ms2_spectra_from_selected_files |-> Absent,
   unsupported_files_skipped_count |-> Absent,
   ms2_count_source_type |-> Absent,
   processing_error_message |-> Absent]

\* what the remote side holds: each entry is a line of the lftp listing and
\* the run of the count command on that path
Counted(n) == Completed(IF n = "0" THEN 1 ELSE 0, n \o "\n")

Remote(run, returncode, entries) ==
  [lftp |-> [run |-> run, returncode |-> returncode,
             stdout |-> [k \in DOMAIN entries |-> entries[k].line]],
   entries |-> entries]

Entry(line, curl) == [line |-> line, curl |-> curl]

\* the run of the count command for a listed path
CurlFor(remote, ftp_path) ==
  remote.entries[CHOOSE k \in DOMAIN remote.entries : strip(remote.entries[k].line) = ftp_path].curl

NoRemote == Remote("completed", 1, <<>>)

\* a study with twelve sample files, one blank, a vendor file and a text file
ManyFilesRemote ==
  Remote("completed", 0,
     << Entry("/MSV000003/peak/", TimedOut),
        Entry("/MSV000003/peak/s01.mzML", Counted("3")),
        Entry("/MSV000003/peak/s02.mzML", Counted("0")),
        Entry("/MSV000003/peak/blank_01.mzML", Counted("7")),
        Entry("/MSV000003/peak/s03.mzML", TimedOut),
        Entry("/MSV000003/peak/s04.mzXML", Counted("2")),
        Entry("/MSV000003/raw/s04.raw", Counted("1")),
        Entry("/MSV000003/readme.txt", Counted("1")),
        Entry("/MSV000003/peak/s05.mgf", Completed(2, "")),
        Entry("/MSV000003/peak/s06.mzML", Completed(0, "")),
        Entry("/MSV000003/peak/s07.mzML", Counted("12")),
        Entry("/MSV000003/peak/s08.mzML", Counted("1")),
        Entry("/MSV000003/peak/s09.mzML", Counted("1")),
        Entry("/MSV000003/peak/s10.CDF", Counted("1")),
        Entry("/MSV000003/peak/s11.mzML", Counted("1")),
        Entry("/MSV000003/peak/s12.mzML", Counted("1")) >>)

\* the two files of the end-to-end scenario
GrainRemote ==
  Remote("completed", 0,
     << Entry("/MSV001/ctrl_raw_grain_01.mzML", Counted("5")),
        Entry("/MSV001/beer_final_03.mzML", Counted("9")) >>)

\* only files the MAYBE rules reject
ProcessedOnlyRemote ==
  Remote("completed", 0,
     << Entry("/MSV000005/beer_01.mzML", Counted("4")),
        Entry("/MSV000005/qc_02.mzML", Counted("4")) >>)

ListingTimeoutRemote == Remote("timeout", 0, <<>>)

ListingFailedRemote == Remote("completed", 1, <<>>)

ListingRaisesRemote == Remote("oserror", 0, <<>>)

\* the shell says that lftp is not installed
ListingUnavailableRemote == Remote("completed", 127, <<>>)

\* three sample files; the count command cannot be started for the second
CountRaisesRemote ==
  Remote("completed", 0,
     << Entry("/MSV000015/a01.mzML", Counted("3")),
        Entry("/MSV000015/a02.mzML", RunRaises),
        Entry("/MSV000015/a03.mzML", Counted("2")) >>)

\* twelve files of which a MAYBE study keeps eleven, for two reasons when the
\* food key is grain
RawSamplesRemote ==
  Remote("completed", 0,
     << Entry("/MSV000018/fresh_01.mzML", Counted("1")),
        Entry("/MSV000018/grain-fresh_02.mzML", Counted("2")),
        Entry("/MSV000018/ctrl_03.mzML", Counted("1")),
        Entry("/MSV000018/beer_04.mzML", Counted("4")),
        Entry("/MSV000018/fresh_05.mzML", Counted("1")),
        Entry("/MSV000018/grain-ctrl_06.mzML", Counted("1")),
        Entry("/MSV000018/fresh_07.mzML", Counted("0")),
        Entry("/MSV000018/fresh_08.mzML", Counted("1")),
        Entry("/MSV000018/fresh_09.mzML", Counted("1")),
        Entry("/MSV000018/fresh_10.mzML", Counted("1")),
        Entry("/MSV000018/fresh_11.mzML", Counted("1")),
        Entry("/MSV000018/grain-fresh_12.mzML", Counted("6")) >>)

\* the remote side, by the link of the dataset
RemoteAt(ftp_link) ==
  CASE ftp_link = JStr("ftp://massive.ucsd.edu/MSV000003") -> ManyFilesRemote
    [] ftp_link = JStr("ftp://massive.ucsd.edu/MSV001/") -> GrainRemote
    [] ftp_link = JStr("ftp://massive.ucsd.edu/MSV000005") -> ProcessedOnlyRemote
    [] ftp_link = JStr("ftp://massive.ucsd.edu/MSV000004") -> ListingTimeoutRemote
    [] ftp_link = JStr("ftp://massive.ucsd.edu/MSV000012") -> ListingFailedRemote
    [] ftp_link = JStr("ftp://massive.ucsd.edu/MSV000013") -> ListingRaisesRemote
    [] ftp_link = JStr("ftp://massive.ucsd.edu/MSV000015") -> CountRaisesRemote
    [] ftp_link = JStr("ftp://massive.ucsd.edu/MSV000016") -> ListingUnavailableRemote
    [] ftp_link = JStr("ftp://massive.ucsd.edu/MSV000018") -> RawSamplesRemote
    [] OTHER -> NoRemote

\* datasets that take the different paths of the driver: counted, kept out by
\* the assessment or by the link, two whose worker raises, and one whose
\* listing times out
BatchPool ==
  { Record(JStr("MSV000003"), JStr("ACCEPTED"), JStr("ftp://massive.ucsd.edu/MSV000003")),
    Record(JStr("MSV001"), JStr("MAYBE"), JStr("ftp://massive.ucsd.edu/MSV001/")),
    Record(JStr("MSV000002"), JStr("REJECTED"), JStr("ftp://massive.ucsd.edu/MSV001/")),
    Record(JStr("MSV000008"), JStr("ACCEPTED"), Absent),
    Record(JStr("MSV000013"), JStr("ACCEPTED"), JStr("ftp://massive.ucsd.edu/MSV000013")),
    Record(JStr("MSV000004"), JStr("ACCEPTED"), JStr("ftp://massive.ucsd.edu/MSV000004")),
    Record(Absent, JNull, JStr("ftp://massive.ucsd.edu/MSV001/")) }

\* further datasets, each processed as a batch of its own
SinglePool ==
  { Record(JStr("MSV000005"), JStr("MAYBE"), JStr("ftp://massive.ucsd.edu/MSV000005")),
    Record(JStr("MSV000006"), JStr("REJECTED"), JStr("")),
    Record(JStr("MSV000007"), Absent, JStr("ftp://massive.ucsd.edu/MSV001/")),
    Record(JStr("MSV000009"), JStr("MAYBE"), JStr("")),
    Record(JStr("MSV000010"), JStr("ACCEPTED"), JStr("http://massive.ucsd.edu/MSV001/")),
    Record(JStr("MSV000011"), JStr("MAYBE"), JNull),
    Record(JStr("MSV000012"), JStr("MAYBE"), JStr("ftp://massive.ucsd.edu/MSV000012")),
    Record(JStr("MSV000015"), JStr("ACCEPTED"), JStr("ftp://massive.ucsd.edu/MSV000015")),
    Record(JStr("MSV000016"), JStr("ACCEPTED"), JStr("ftp://massive.ucsd.edu/MSV000016")),
    Record(JStr("MSV000017"), JStr("PENDING"), JStr("ftp://massive.ucsd.edu/MSV000003")),
    Record(JStr("MSV000018"), JStr("MAYBE"), JStr("ftp://massive.ucsd.edu/MSV000018")),
    [Record(JStr("MSV000014"), JStr("MAYBE"), JStr("ftp://massive.ucsd.edu/MSV000013"))
       EXCEPT !.unsupported_files_skipped_count = JInt(4)] }

\* the loop of lines 342-365 run to its end: the details and the total, or
\* the exception that ended it
CountLoop(remote, files) ==
  LET acc[k \in 0..Len(files)] ==
        IF k = 0 THEN [details |-> <<>>, total |-> 0, raised |-> FALSE]
        ELSE Bind(acc[k - 1], LAMBDA prev :
               IF prev.raised THEN prev
               ELSE Bind(CurlFor(remote, files[k].ftp_file_path), LAMBDA curl :
                      IF curl.run = "oserror" THEN [prev EXCEPT !.raised = TRUE]
                      ELSE Bind(CountFile(files[k], curl), LAMBDA ms2_count_this_file :
                             [details |-> Append(prev.details,
                                [files[k] EXCEPT !.ms2_spectra_in_file = ms2_count_this_file]),
                              total |-> prev.total + ms2_count_this_file,
                              raised |-> FALSE])))
  IN acc[Len(files)]

\* process_single_dataset from entry to exit, for one dataset on its own
process_single_dataset(dataset_info_item, food_key) ==
  Bind(Prepare(dataset_info_item, food_key, RemoteAt(dataset_info_item.ftp_link).lftp),
       LAMBDA r :
         IF r.outcome # "continue" THEN [outcome |-> r.outcome, item |-> r.item]
         ELSE Bind(CountLoop(RemoteAt(dataset_info_item.ftp_link), r.files), LAMBDA c :
                IF c.raised THEN [outcome |-> "raise", item |-> r.item]
                ELSE [outcome |-> "return",
                      item |-> Finish(r.item,
                                      Get(dataset_info_item.llm_assessment, JStr("REJECTED")),
                                      c.details, c.total)]))

(***************************************************************************)
(* Bounds of the classifier inputs.                                        *)
(***************************************************************************)
MaxTokens == 2

Tokens == {"beer", "leaf", "grain", "QC", "treat", "wheat"}

Separators == {"_", "-"}

RECURSIVE NamesOf(_, _)
\* names of exactly k tokens joined by the separator sep
NamesOf(k, sep) ==
  IF k = 1 THEN Tokens
  ELSE { t \o sep \o n : t \in Tokens, n \in NamesOf(k - 1, sep) }

FileNames == { n \o ".mzML" : n \in UNION { NamesOf(k, sep) : k \in 1..MaxTokens, sep \in Separators } }

FoodKeys == {"", "wheat", "Wheat_grain"}

Assessments == {"ACCEPTED", "MAYBE", "REJECTED", "PENDING"}

\* terms the monotonicity test puts in front of a filename
AddedTerms == {"ctrl", "untreated", "raw", "fresh", "unprocessed"}

(***************************************************************************)
(* Bounds of the driver inputs.                                            *)
(***************************************************************************)
MaxDatasets == 2

MaxCpu == 10

\* what os.cpu_count() may return: None, written 0, or the number of CPUs
CpuCounts == 0..MaxCpu

\* line 430: the ceiling of the number of worker processes
HardCeiling == 4

\* line 430: max(1, min(num_cpu // 2 if num_cpu else 1, 4)), the max_workers
\* argument of every call of process_dataset_file (line 457)
num_workers(num_cpu) ==
  MaxOf({1, MinOf({IF num_cpu # 0 THEN num_cpu \div 2 ELSE 1, HardCeiling})})

DriverFoodKeys == {"grain", "wheat"}

RECURSIVE ListsOf(_, _)
\* the lists of exactly n records of the pool
ListsOf(pool, n) ==
  IF n = 0 THEN { <<>> }
  ELSE { Append(ds, d) : ds \in ListsOf(pool, n - 1), d \in pool }

\* one batch with more datasets than the ceiling of line 430, each with one
\* file to count
WideBatch ==
  [k \in 1..(HardCeiling + 1) |->
     Record(JStr("MSV001"), JStr("MAYBE"), JStr("ftp://massive.ucsd.edu/MSV001/"))]

\* the input lists: every batch of up to MaxDatasets records of BatchPool,
\* every record of SinglePool alone, and the wide batch
DatasetLists ==
  UNION { ListsOf(BatchPool, n) : n \in 0..MaxDatasets }
    \cup { <<d>> : d \in SinglePool } \cup { WideBatch }

\* what open and json.load make of the input file
Unreadable == [unreadable |-> TRUE]

IsList(v) == DOMAIN v = {"list"}

\* the input files: every batch of DatasetLists, an unreadable file, and
\* files that hold something else than a list
InputFiles ==
  { JList(ds) : ds \in DatasetLists }
    \cup { Unreadable, JNull, JInt(3),
           Record(JStr("MSV000003"), JStr("ACCEPTED"), JStr("ftp://massive.ucsd.edu/MSV000003")) }

(***************************************************************************)
(* State.                                                                  *)
(*   filename, food_item_key, assessment_type, verdict, base: the          *)
(*     classifier under test (food_item_key is also the driver's food key) *)
(*   input_file: what json.load finds in the input file, or Unreadable     *)
(*   datasets: the list of dataset records loaded from it                  *)
(*   max_workers: the argument of process_dataset_file                     *)
(*   pc: where process_dataset_file is                                     *)
(*   futures: one entry per submitted dataset, with the state of the       *)
(*     worker that runs process_single_dataset on its copy                 *)
(*   submissions: the dataset indices in the order of executor.submit      *)
(*   completions: the dataset indices in the order as_completed yields     *)
(*   final_processed_datasets: the list of line 388; each entry carries    *)
(*     the index of the input dataset it came from                         *)
(*   output_file: the content written by json.dump, Absent before          *)
(*   candidate_files_for_ms2, files_to_process_for_ms2: the selection of   *)
(*     lines 334-340 on its own                                            *)
(*   derived_food_name_regex: the food-key generator on its own, applied   *)
(*     to food_item_key                                                    *)
(*   entry, retry_delay, max_retries, attempt: the arguments and the       *)
(*     counter of analyze_and_categorize_dataset (decision.py)             *)
(*   response: what the labelling service did at the last call             *)
(*   service_calls: the number of calls made to the labelling service      *)
(*   sleeps: the arguments of the calls of time.sleep, in order            *)
(*   first_retry_delay: the retry_delay argument as it was passed          *)
(*   lpc: where analyze_and_categorize_dataset is                          *)
(***************************************************************************)
VARIABLES filename, food_item_key, assessment_type, verdict, base,
          input_file, datasets, max_workers, pc, futures, submissions, completions,
          final_processed_datasets, output_file,
          candidate_files_for_ms2, files_to_process_for_ms2,
          derived_food_name_regex,
          entry, retry_delay, max_retries, attempt, response, service_calls, sleeps,
          first_retry_delay, lpc,
          file_content, original_content, outcome

vars == <<filename, food_item_key, assessment_type, verdict, base,
          input_file, datasets, max_workers, pc, futures, submissions, completions,
          final_processed_datasets, output_file,
          candidate_files_for_ms2, files_to_process_for_ms2,
          derived_food_name_regex,
          entry, retry_delay, max_retries, attempt, response, service_calls, sleeps,
          first_retry_delay, lpc,
          file_content, original_content, outcome>>

clean_vars == <<file_content, original_content, outcome>>

label_vars == <<entry, retry_delay, max_retries, attempt, response, service_calls, sleeps,
               first_retry_delay, lpc>>

derive_vars == <<derived_food_name_regex>>

selection_vars == <<candidate_files_for_ms2, files_to_process_for_ms2>>

classifier_vars == <<filename, assessment_type, verdict, base>>

driver_vars == <<input_file, datasets, max_workers, pc, futures, submissions,
                 completions, final_processed_datasets, output_file>>

NoVerdict == [keep |-> FALSE, reason |-> "not_classified"]

NoBase == [filename |-> "", verdict |-> NoVerdict]

NotSelected == <<[selected |-> FALSE]>>

NotDerived == <<[derived |-> FALSE]>>

DeriveIdle == derived_food_name_regex = NotDerived

NoResponse == [kind |-> "none yet"]

NotRead == [kind |-> "not read"]

CleanIdle ==
  /\ file_content = NotRead
  /\ original_content = NotRead
  /\ outcome = "idle"

LabelIdle ==
  /\ entry = Absent
  /\ retry_delay = 0
  /\ max_retries = 0
  /\ attempt = 0
  /\ response = NoResponse
  /\ service_calls = 0
  /\ sleeps = <<>>
  /\ first_retry_delay = 0
  /\ lpc = "idle"

SelectionIdle ==
  /\ candidate_files_for_ms2 = <<>>
  /\ files_to_process_for_ms2 = NotSelected

ClassifierIdle ==
  /\ filename = ""
  /\ assessment_type = ""
  /\ verdict = NoVerdict
  /\ base = NoBase

DriverIdle ==
  /\ input_file = JNull
  /\ datasets = <<>>
  /\ max_workers = 1
  /\ pc = "idle"
  /\ futures = <<>>
  /\ submissions = <<>>
  /\ completions = <<>>
  /\ final_processed_datasets = <<>>
  /\ output_file = Absent

(***************************************************************************)
(* Bounded parallel driver (ms_filter.py, lines 374-423).                  *)
(***************************************************************************)
Init ==
  /\ ClassifierIdle
  /\ SelectionIdle
  /\ DeriveIdle
  /\ LabelIdle
  /\ CleanIdle
  /\ food_item_key \in DriverFoodKeys
  /\ input_file \in InputFiles
  /\ datasets = <<>>
  /\ max_workers \in { num_workers(num_cpu) : num_cpu \in CpuCounts }
  /\ pc = "load"
  /\ futures = <<>>
  /\ submissions = <<>>
  /\ completions = <<>>
  /\ final_processed_datasets = <<>>
  /\ output_file = Absent

\* variant: what was loaded is not checked to be a list
Load_unchecked ==
  /\ pc = "load"
  /\ IF input_file = Unreadable THEN pc' = "returned" /\ datasets' = datasets
     ELSE IF ~IsList(input_file) THEN pc' = "start" /\ datasets' = <<>>
     ELSE pc' = "start" /\ datasets' = input_file.list
  /\ UNCHANGED <<input_file, max_workers, futures, submissions, completions,
                 final_processed_datasets, output_file, food_item_key,
                 classifier_vars, selection_vars, derive_vars, label_vars, clean_vars>>

\* lines 376-386: the input file is read; an unreadable file and a value
\* that is not a list end the call
Load ==
  /\ pc = "load"
  /\ IF input_file = Unreadable THEN pc' = "returned" /\ datasets' = datasets
     ELSE IF ~IsList(input_file) THEN pc' = "returned" /\ datasets' = datasets
     ELSE pc' = "start" /\ datasets' = input_file.list
  /\ UNCHANGED <<input_file, max_workers, futures, submissions, completions,
                 final_processed_datasets, output_file, food_item_key,
                 classifier_vars, selection_vars, derive_vars, label_vars, clean_vars>>

\* variant: a pool with one process per dataset
actual_max_workers_one_per_dataset == IF Len(datasets) > 0 THEN Len(datasets) ELSE 1

\* line 389
actual_max_workers == IF Len(datasets) > 0 THEN MinOf({max_workers, Len(datasets)}) ELSE 1

PendingFuture ==
  [state |-> "pending", outcome |-> "none", item |-> Absent, message |-> "",
   files |-> <<>>, details |-> <<>>, total |-> 0,
   list_calls |-> 0, count_calls |-> 0, collected |-> FALSE]

\* lines 387-395: the pool is created and every dataset is submitted
Submit ==
  /\ pc = "start"
  /\ futures' = [i \in DOMAIN datasets |-> PendingFuture]
  /\ submissions' = [i \in DOMAIN datasets |-> i]
  /\ pc' = IF Len(datasets) = 0 THEN "write" ELSE "collect"
  /\ UNCHANGED <<completions, input_file, datasets, max_workers,
                 final_processed_datasets, output_file, food_item_key,
                 classifier_vars, selection_vars, derive_vars, label_vars, clean_vars>>

\* lines 265-340 for each record of the input pools and each food key: what a
\* pool process makes of the record, on the listing its link leads to
Prepared ==
  [d \in BatchPool \cup SinglePool |->
     [k \in DriverFoodKeys |-> Prepare(d, k, RemoteAt(d.ftp_link).lftp)]]

Running == { i \in DOMAIN futures : futures[i].state = "running" }

\* a pool process takes the oldest pending work item and runs lines 265-340
WorkerPrepare(i) ==
  /\ pc = "collect"
  /\ futures[i].state = "pending"
  /\ \A j \in 1..(i - 1) : futures[j].state # "pending"
  /\ Cardinality(Running) < actual_max_workers
  /\ \E r \in { Prepared[datasets[i]][food_item_key] } :
        futures' = [futures EXCEPT ![i] =
          [@ EXCEPT !.state = IF r.outcome = "continue" THEN "running" ELSE "finished",
                    !.outcome = r.outcome,
                    !.item = r.item,
                    !.message = r.message,
                    !.files = r.files,
                    !.list_calls = r.list_calls]]
  /\ UNCHANGED <<completions, input_file, datasets, max_workers, pc, submissions,
                 final_processed_datasets, output_file, food_item_key,
                 classifier_vars, selection_vars, derive_vars, label_vars, clean_vars>>

\* variant: the timeout of a count command ends the dataset with an error
WorkerCount_timeout_raises(i) ==
  /\ pc = "collect"
  /\ futures[i].state = "running"
  /\ \E f \in { futures[i] } :
     \E selected_file_info \in { f.files[Len(f.details) + 1] } :
     \E curl \in { CurlFor(RemoteAt(datasets[i].ftp_link), selected_file_info.ftp_file_path) } :
     \E ms2_count_this_file \in { CountFile(selected_file_info, curl) } :
     \E details \in { Append(f.details,
                        [selected_file_info EXCEPT !.ms2_spectra_in_file = ms2_count_this_file]) } :
       futures' = [futures EXCEPT ![i] =
          IF curl.run = "oserror"
          THEN [f EXCEPT !.state = "finished", !.outcome = "raise",
                         !.message = "[Errno 12] Cannot allocate memory",
                         !.count_calls = @ + 1]
          ELSE IF curl.run = "timeout"
          THEN [f EXCEPT !.state = "finished", !.outcome = "raise",
                         !.message = "Command timed out after 3600 seconds",
                         !.count_calls = @ + 1]
          ELSE IF Len(details) = Len(f.files)
          THEN [f EXCEPT !.state = "finished", !.outcome = "return",
                         !.item = Finish(f.item, Get(datasets[i].llm_assessment, JStr("REJECTED")),
                                         details, f.total + ms2_count_this_file),
                         !.details = details,
                         !.total = f.total + ms2_count_this_file,
                         !.count_calls = @ + 1]
          ELSE [f EXCEPT !.details = details,
                         !.total = f.total + ms2_count_this_file,
                         !.count_calls = @ + 1]]
  /\ UNCHANGED <<completions, input_file, datasets, max_workers, pc, submissions,
                 final_processed_datasets, output_file, food_item_key,
                 classifier_vars, selection_vars, derive_vars, label_vars, clean_vars>>

\* one pass of the loop of lines 345-365; after the last file, lines 367-372
WorkerCount(i) ==
  /\ pc = "collect"
  /\ futures[i].state = "running"
  /\ \E f \in { futures[i] } :
     \E selected_file_info \in { f.files[Len(f.details) + 1] } :
     \E curl \in { CurlFor(RemoteAt(datasets[i].ftp_link), selected_file_info.ftp_file_path) } :
     \E ms2_count_this_file \in { CountFile(selected_file_info, curl) } :
     \E details \in { Append(f.details,
                        [selected_file_info EXCEPT !.ms2_spectra_in_file = ms2_count_this_file]) } :
       futures' = [futures EXCEPT ![i] =
          IF curl.run = "oserror"
          THEN [f EXCEPT !.state = "finished", !.outcome = "raise",
                         !.message = "[Errno 12] Cannot allocate memory",
                         !.count_calls = @ + 1]
          ELSE IF Len(details) = Len(f.files)
          THEN [f EXCEPT !.state = "finished", !.outcome = "return",
                         !.item = Finish(f.item, Get(datasets[i].llm_assessment, JStr("REJECTED")),
                                         details, f.total + ms2_count_this_file),
                         !.details = details,
                         !.total = f.total + ms2_count_this_file,
                         !.count_calls = @ + 1]
          ELSE [f EXCEPT !.details = details,
                         !.total = f.total + ms2_count_this_file,
                         !.count_calls = @ + 1]]
  /\ UNCHANGED <<completions, input_file, datasets, max_workers, pc, submissions,
                 final_processed_datasets, output_file, food_item_key,
                 classifier_vars, selection_vars, derive_vars, label_vars, clean_vars>>

\* variant: the error record zeroes the skipped count as well
ErrorRecord_zeroed(original_dataset, message) ==
  [original_dataset EXCEPT
     !.selected_files_for_ms2_analysis = JList(<<>>),
     !.total_ms2_spectra_from_selected_files = JInt(0),
     !.unsupported_files_skipped_count = JInt(0),
     !.ms2_count_source_type = JStr("processing_error"),
     !.processing_error_message = JStr(message)]

\* variant: a dataset whose worker raised is marked as rejected
ErrorRecord_relabels(original_dataset, message) ==
  [original_dataset EXCEPT
     !.llm_assessment = JStr("REJECTED"),
     !.selected_files_for_ms2_analysis = JList(<<>>),
     !.total_ms2_spectra_from_selected_files = JInt(0),
     !.unsupported_files_skipped_count =
        Get(original_dataset.unsupported_files_skipped_count, JStr("Error occurred before count")),
     !.ms2_count_source_type = JStr("processing_error"),
     !.processing_error_message = JStr(message)]

\* variant: the error record gets the tag and the message only
ErrorRecord_tag_only(original_dataset, message) ==
  [original_dataset EXCEPT
     !.unsupported_files_skipped_count =
        Get(original_dataset.unsupported_files_skipped_count, JStr("Error occurred before count")),
     !.ms2_count_source_type = JStr("processing_error"),
     !.processing_error_message = JStr(message)]

\* lines 405-411: the error record built from the driver's own copy
ErrorRecord(original_dataset, message) ==
  [original_dataset EXCEPT
     !.selected_files_for_ms2_analysis = JList(<<>>),
     !.total_ms2_spectra_from_selected_files = JInt(0),
     !.unsupported_files_skipped_count =
        Get(original_dataset.unsupported_files_skipped_count, JStr("Error occurred before count")),
     !.ms2_count_source_type = JStr("processing_error"),
     !.processing_error_message = JStr(message)]

\* variant: once a worker has raised, every result is recorded as an error
Collect_poisoned(i) ==
  /\ pc = "collect"
  /\ futures[i].state = "finished"
  /\ ~futures[i].collected
  /\ futures' = [futures EXCEPT ![i].collected = TRUE]
  /\ final_processed_datasets' =
       Append(final_processed_datasets,
              [origin |-> i,
               item |-> IF \A j \in DOMAIN futures : futures[j].outcome # "raise"
                        THEN futures[i].item
                        ELSE ErrorRecord(datasets[i], "A process in the process pool was terminated")])
  /\ pc' = IF \A j \in DOMAIN futures : j = i \/ futures[j].collected THEN "write" ELSE "collect"
  /\ completions' = Append(completions, i)
  /\ UNCHANGED <<input_file, datasets, max_workers, submissions, output_file, food_item_key,
                 classifier_vars, selection_vars, derive_vars, label_vars, clean_vars>>

\* variant: a dataset whose worker raised is logged and left out
Collect_drops_failed(i) ==
  /\ pc = "collect"
  /\ futures[i].state = "finished"
  /\ ~futures[i].collected
  /\ futures' = [futures EXCEPT ![i].collected = TRUE]
  /\ final_processed_datasets' =
       IF futures[i].outcome = "return"
       THEN Append(final_processed_datasets, [origin |-> i, item |-> futures[i].item])
       ELSE final_processed_datasets
  /\ pc' = IF \A j \in DOMAIN futures : j = i \/ futures[j].collected THEN "write" ELSE "collect"
  /\ completions' = Append(completions, i)
  /\ UNCHANGED <<input_file, datasets, max_workers, submissions, output_file, food_item_key,
                 classifier_vars, selection_vars, derive_vars, label_vars, clean_vars>>

\* lines 396-412: as_completed yields a finished future
Collect(i) ==
  /\ pc = "collect"
  /\ futures[i].state = "finished"
  /\ ~futures[i].collected
  /\ futures' = [futures EXCEPT ![i].collected = TRUE]
  /\ final_processed_datasets' =
       Append(final_processed_datasets,
              [origin |-> i,
               item |-> IF futures[i].outcome = "return" THEN futures[i].item
                        ELSE ErrorRecord(datasets[i], futures[i].message)])
  /\ pc' = IF \A j \in DOMAIN futures : j = i \/ futures[j].collected THEN "write" ELSE "collect"
  /\ completions' = Append(completions, i)
  /\ UNCHANGED <<input_file, datasets, max_workers, submissions, output_file, food_item_key,
                 classifier_vars, selection_vars, derive_vars, label_vars, clean_vars>>

\* code points order the characters of a study identifier
OrderedChars == "0123456789ABCDEFGHIJKLMNOPQRSTUVWXYZ_abcdefghijklmnopqrstuvwxyz"

CharRank(c) == CHOOSE k \in 1..Len(OrderedChars) : CharAt(OrderedChars, k) = c

RECURSIVE StrLess(_, _)
\* a < b on Python strings
StrLess(a, b) ==
  IF b = "" THEN FALSE
  ELSE IF a = "" THEN TRUE
  ELSE IF Head(a) = Head(b) THEN StrLess(Tail(a), Tail(b))
  ELSE CharRank(Head(a)) < CharRank(Head(b))

\* the key of line 414
StudyKey(x) == Get(x.item.study_id, JStr("")).str

\* variant: the results are written in the order they came in
SortedByStudyId_as_completed(xs) == xs

\* list.sort(key=...): stable insertion of each entry after the entries whose
\* key is not greater
SortedByStudyId(xs) ==
  LET sorted[i \in 0..Len(xs)] ==
        IF i = 0 THEN <<>>
        ELSE Bind(sorted[i - 1], LAMBDA prev :
               LET at == Cardinality({ k \in DOMAIN prev :
                                         ~StrLess(StudyKey(xs[i]), StudyKey(prev[k])) })
               IN SubSeq(prev, 1, at) \o <<xs[i]>> \o SubSeq(prev, at + 1, Len(prev)))
  IN sorted[Len(xs)]

\* lines 414-423: sort and write; the write may fail and is then only logged
Write(written) ==
  /\ pc = "write"
  /\ final_processed_datasets' = SortedByStudyId(final_processed_datasets)
  /\ output_file' = IF written THEN JList(final_processed_datasets') ELSE Absent
  /\ pc' = "done"
  /\ UNCHANGED <<completions, input_file, datasets, max_workers, futures, submissions,
                 food_item_key, classifier_vars, selection_vars, derive_vars, label_vars, clean_vars>>

Next ==
  \/ Load
  \/ Submit
  \/ \E i \in DOMAIN futures : WorkerPrepare(i)
  \/ \E i \in DOMAIN futures : WorkerCount(i)
  \/ \E i \in DOMAIN futures : Collect(i)
  \/ \E written \in BOOLEAN : Write(written)

Spec == Init /\ [][Next]_vars

\* every step of the driver and of its workers is taken in the end: the
\* external commands return or time out, and the pool runs what is submitted
FairSpec == Spec /\ WF_vars(Next)

(***************************************************************************)
(* The classifier on its own: one filename, one food key, one assessment.  *)
(***************************************************************************)
\* the call made by process_single_dataset, lines 300-301
Relevance(name, key, assessment) ==
  check_filename_relevance(ToLower(name), get_derived_food_name_regex_list(key), assessment)

InitClassify ==
  /\ filename \in FileNames
  /\ food_item_key \in FoodKeys
  /\ assessment_type \in Assessments
  /\ verdict = NoVerdict
  /\ base = NoBase
  /\ DriverIdle
  /\ SelectionIdle
  /\ DeriveIdle
  /\ LabelIdle
  /\ CleanIdle

Classify ==
  /\ verdict = NoVerdict
  /\ verdict' = Relevance(filename, food_item_key, assessment_type)
  /\ UNCHANGED <<filename, food_item_key, assessment_type, base, driver_vars,
                 selection_vars, derive_vars, label_vars, clean_vars>>

\* the monotonicity test: the same file with one more term, classified again
AddTerm(term, sep) ==
  /\ verdict # NoVerdict
  /\ base = NoBase
  /\ base' = [filename |-> filename, verdict |-> verdict]
  /\ filename' = term \o sep \o filename
  /\ verdict' = Relevance(filename', food_item_key, assessment_type)
  /\ UNCHANGED <<food_item_key, assessment_type, driver_vars, selection_vars, derive_vars, label_vars, clean_vars>>

NextClassify ==
  \/ Classify
  \/ \E term \in AddedTerms, sep \in Separators : AddTerm(term, sep)

SpecClassify == InitClassify /\ [][NextClassify]_vars

(***************************************************************************)
(* Properties of the classifier.                                           *)
(***************************************************************************)
Classified == verdict # NoVerdict

MatchesQC(name) == AnySearch(COMPILED_QC, ToLower(name))

MatchesProcessed(name) == AnySearch(COMPILED_PROCESSED, ToLower(name))

MatchesControl(name) == AnySearch(COMPILED_CONTROL, ToLower(name))

MatchesRaw(name) == AnySearch(COMPILED_RAW, ToLower(name))

MatchesNonEdible(name) == AnySearch(COMPILED_NON_EDIBLE, ToLower(name))

MatchesTreatment(name) == AnySearch(COMPILED_TREATMENT, ToLower(name))

MatchesGenericEdible(name) == AnySearch(COMPILED_GENERIC_EDIBLE_PART, ToLower(name))

MatchesFood(name) == AnySearch(get_derived_food_name_regex_list(food_item_key), ToLower(name))

\* C1: a filename that matches a QC/blank/standard term is rejected with the
\* QC-or-blank reason, whatever the assessment and the food key are
C1_QCRejectedFirst ==
  (Classified /\ MatchesQC(filename)) => verdict = Verdict(FALSE, "qc_or_blank_file")

C1_Witness ==
  /\ Classified
  /\ MatchesQC(filename)
  /\ assessment_type = "ACCEPTED"
  /\ food_item_key # ""
  /\ verdict = Verdict(FALSE, "qc_or_blank_file")

\* C2: for an ACCEPTED study every filename without a QC term is kept,
\* whatever other terms it matches and whatever the food key is
C2_AcceptedNonQCKept ==
  (Classified /\ assessment_type = "ACCEPTED" /\ ~MatchesQC(filename))
    => verdict = Verdict(TRUE, "accepted_study_non_qc_file")

C2_Witness ==
  /\ Classified
  /\ assessment_type = "ACCEPTED"
  /\ ~MatchesQC(filename)
  /\ MatchesProcessed(filename)
  /\ MatchesNonEdible(filename)
  /\ MatchesTreatment(filename)
  /\ verdict.keep

\* a MAYBE file with a processed term and neither a control nor a raw term
ProcessedWithoutSignal(name) ==
  /\ assessment_type = "MAYBE"
  /\ ~MatchesQC(name)
  /\ MatchesProcessed(name)
  /\ ~MatchesControl(name)
  /\ ~MatchesRaw(name)

\* the step from base.filename to filename added a control or raw match and
\* changed no other category match
SignalAdded ==
  /\ base # NoBase
  /\ ProcessedWithoutSignal(base.filename)
  /\ MatchesControl(filename) \/ MatchesRaw(filename)
  /\ MatchesQC(filename) = MatchesQC(base.filename)
  /\ MatchesProcessed(filename) = MatchesProcessed(base.filename)
  /\ MatchesNonEdible(filename) = MatchesNonEdible(base.filename)
  /\ MatchesTreatment(filename) = MatchesTreatment(base.filename)
  /\ MatchesGenericEdible(filename) = MatchesGenericEdible(base.filename)
  /\ MatchesFood(filename) = MatchesFood(base.filename)

ProcessedRejected ==
  (Classified /\ base = NoBase /\ ProcessedWithoutSignal(filename))
    => verdict = Verdict(FALSE, "maybe_processed_product_no_raw_control_signal")

\* C3 as stated: such a file is rejected as processed, and adding a control
\* or a raw term to it always makes the classifier keep it
C3_AsStated ==
  /\ ProcessedRejected
  /\ SignalAdded => verdict.keep

\* C3 amended: such a file is rejected as processed; adding a control term
\* makes the classifier keep it; adding a raw term alone makes the classifier
\* keep it unless the name has a non-edible term and no generic-edible term,
\* and then it is rejected with the non-edible reason
C3_SignalFlipsUnlessNonEdible ==
  /\ ProcessedRejected
  /\ SignalAdded =>
       IF MatchesControl(filename)
            \/ ~(MatchesNonEdible(filename) /\ ~MatchesGenericEdible(filename))
       THEN verdict.keep
       ELSE verdict = Verdict(FALSE, "maybe_non_edible_part_no_edible_control_signal")

C3_Witness ==
  /\ SignalAdded
  /\ base.verdict = Verdict(FALSE, "maybe_processed_product_no_raw_control_signal")
  /\ MatchesRaw(filename)
  /\ ~MatchesControl(filename)
  /\ verdict.keep

(***************************************************************************)
(* The selection of lines 334-340 on its own: a list of candidate files,   *)
(* each with one of the reasons the classifier keeps a file for.           *)
(***************************************************************************)
MaxCandidates == 11

SignalReasons ==
  {"maybe_food_match_with_raw_control_or_edible_term",
   "maybe_no_food_match_but_strong_raw_control_signal"}

PlainReason == "accepted_study_non_qc_file"

CandidateName(k) ==
  "f" \o CharAt(DigitChars, (k \div 10) + 1) \o CharAt(DigitChars, (k % 10) + 1) \o ".mzML"

Candidate(k, reason) ==
  [ftp_file_path |-> "/MSV000003/peak/" \o CandidateName(k),
   filename |-> CandidateName(k),
   file_ext_lower |-> ".mzml",
   heuristic_match_reason |-> reason,
   ms2_spectra_in_file |-> 0]

InitSelect ==
  /\ ClassifierIdle
  /\ DriverIdle
  /\ DeriveIdle
  /\ LabelIdle
  /\ CleanIdle
  /\ food_item_key = ""
  /\ \E n \in 0..MaxCandidates, signal \in SignalReasons :
       \E with_signal \in SUBSET (1..n) :
         candidate_files_for_ms2 =
           [k \in 1..n |-> Candidate(k, IF k \in with_signal THEN signal ELSE PlainReason)]
  /\ files_to_process_for_ms2 = NotSelected

\* lines 334-340
Select ==
  /\ files_to_process_for_ms2 = NotSelected
  /\ files_to_process_for_ms2' = FilesToProcess(candidate_files_for_ms2)
  /\ UNCHANGED <<candidate_files_for_ms2, food_item_key, classifier_vars, driver_vars,
                 derive_vars, label_vars, clean_vars>>

NextSelect == Select

SpecSelect == InitSelect /\ [][NextSelect]_vars

(***************************************************************************)
(* Properties of the orchestrator and of the driver.                       *)
(***************************************************************************)
AssessmentOf(i) == Get(datasets[i].llm_assessment, JStr("REJECTED"))

HasFtpLink(i) ==
  IsStr(datasets[i].ftp_link) /\ startswith(datasets[i].ftp_link.str, "ftp://")

SelectedOf(item) == item.selected_files_for_ms2_analysis

TotalOf(item) == item.total_ms2_spectra_from_selected_files

\* C4: a dataset assessed REJECTED is never listed nor counted, and its result
\* is tagged rejected_by_llm with no selected file and both counts 0, with or
\* without a valid link
C4_RejectedNeverListed ==
  \A i \in DOMAIN futures :
    datasets[i].llm_assessment = JStr("REJECTED") =>
      /\ futures[i].list_calls = 0
      /\ futures[i].count_calls = 0
      /\ futures[i].state # "running"
      /\ futures[i].state = "finished" =>
           /\ futures[i].outcome = "return"
           /\ futures[i].item.ms2_count_source_type = JStr("rejected_by_llm")
           /\ SelectedOf(futures[i].item) = JList(<<>>)
           /\ TotalOf(futures[i].item) = JInt(0)
           /\ futures[i].item.unsupported_files_skipped_count = JInt(0)

C4_Witness ==
  \E i \in DOMAIN futures :
    /\ datasets[i].llm_assessment = JStr("REJECTED")
    /\ HasFtpLink(i)
    /\ RemoteAt(datasets[i].ftp_link).lftp.stdout # <<>>
    /\ futures[i].state = "finished"
    /\ futures[i].item.ms2_count_source_type = JStr("rejected_by_llm")

\* a link that is absent, null, empty or not an ftp:// link
NoFtpLink(link) ==
  \/ link = Absent
  \/ link = JNull
  \/ IsStr(link) /\ ~startswith(link.str, "ftp://")

\* C5: a dataset that is not REJECTED and has no ftp:// link is never listed,
\* and its result is tagged no_ftp_link with no selected file and total 0
C5_NoLinkNeverListed ==
  \A i \in DOMAIN futures :
    (AssessmentOf(i) # JStr("REJECTED") /\ NoFtpLink(datasets[i].ftp_link)) =>
      /\ futures[i].list_calls = 0
      /\ futures[i].count_calls = 0
      /\ futures[i].state # "running"
      /\ futures[i].state = "finished" =>
           /\ futures[i].outcome = "return"
           /\ futures[i].item.ms2_count_source_type = JStr("no_ftp_link")
           /\ SelectedOf(futures[i].item) = JList(<<>>)
           /\ TotalOf(futures[i].item) = JInt(0)

C5_Witness ==
  \E i \in DOMAIN futures :
    /\ AssessmentOf(i) # JStr("REJECTED")
    /\ IsStr(datasets[i].ftp_link)
    /\ datasets[i].ftp_link.str # ""
    /\ ~startswith(datasets[i].ftp_link.str, "ftp://")
    /\ futures[i].state = "finished"
    /\ futures[i].item.ms2_count_source_type = JStr("no_ftp_link")

\* C6: no dataset has more than MAX_FILES_FOR_MS2_COUNTING selected files,
\* in the worker, in the list of results and in the written output, and the
\* count command is run at most that many times for a dataset
C6_SelectedWithinCap ==
  /\ \A i \in DOMAIN futures :
       /\ futures[i].count_calls <= MAX_FILES_FOR_MS2_COUNTING
       /\ Len(futures[i].files) <= MAX_FILES_FOR_MS2_COUNTING
       /\ Len(futures[i].details) <= MAX_FILES_FOR_MS2_COUNTING
  /\ \A k \in DOMAIN final_processed_datasets :
       Len(SelectedOf(final_processed_datasets[k].item).list) <= MAX_FILES_FOR_MS2_COUNTING
  /\ output_file # Absent =>
       \A k \in DOMAIN output_file.list :
         Len(SelectedOf(output_file.list[k].item).list) <= MAX_FILES_FOR_MS2_COUNTING

\* the files of dataset i that pass the heuristic and can be counted
KeptCandidates(i) ==
  Bind(list_mass_spec_files_recursively(RemoteAt(datasets[i].ftp_link).lftp),
       LAMBDA all_ftp_files_info :
         CandidateFiles(all_ftp_files_info,
                        Verdicts(all_ftp_files_info,
                                 get_derived_food_name_regex_list(food_item_key),
                                 AssessmentOf(i).str)))

C6_Witness ==
  /\ output_file # Absent
  /\ \E k \in DOMAIN output_file.list :
       /\ Len(SelectedOf(output_file.list[k].item).list) = MAX_FILES_FOR_MS2_COUNTING
       /\ futures[output_file.list[k].origin].count_calls = MAX_FILES_FOR_MS2_COUNTING
       /\ Len(KeptCandidates(output_file.list[k].origin)) > MAX_FILES_FOR_MS2_COUNTING

\* the reason of a candidate mentions raw or control
HasSignalReason(x) ==
  \E reason_lower \in {ToLower(x.heuristic_match_reason)} :
    Contains(reason_lower, "raw") \/ Contains(reason_lower, "control")

SignalCandidates ==
  { k \in DOMAIN candidate_files_for_ms2 : HasSignalReason(candidate_files_for_ms2[k]) }

\* C7: with more candidates than the limit, of which exactly the limit have a
\* reason that mentions raw or control, the selected files are exactly those
C7_SignalFilesFillTheCap ==
  (/\ files_to_process_for_ms2 # NotSelected
   /\ Len(candidate_files_for_ms2) > MAX_FILES_FOR_MS2_COUNTING
   /\ Cardinality(SignalCandidates) = MAX_FILES_FOR_MS2_COUNTING)
    => /\ Len(files_to_process_for_ms2) = MAX_FILES_FOR_MS2_COUNTING
       /\ { files_to_process_for_ms2[k] : k \in DOMAIN files_to_process_for_ms2 }
            = { candidate_files_for_ms2[k] : k \in SignalCandidates }

C7_Witness ==
  /\ files_to_process_for_ms2 # NotSelected
  /\ Len(candidate_files_for_ms2) > MAX_FILES_FOR_MS2_COUNTING
  /\ Cardinality(SignalCandidates) = MAX_FILES_FOR_MS2_COUNTING
  /\ 1 \notin SignalCandidates
  /\ \A k \in DOMAIN files_to_process_for_ms2 : HasSignalReason(files_to_process_for_ms2[k])

SomeWorkerRaised == \E i \in DOMAIN futures : futures[i].outcome = "raise"

\* C8: when a worker raises, the driver goes on; every dataset whose worker
\* returned is recorded with the record its worker returned, which is the
\* record process_single_dataset yields for that dataset on its own
C8_SiblingsUnaffected ==
  /\ pc \in {"load", "returned", "start", "collect", "write", "done"}
  /\ \A k \in DOMAIN final_processed_datasets :
       futures[final_processed_datasets[k].origin].outcome = "return" =>
         /\ final_processed_datasets[k].item = futures[final_processed_datasets[k].origin].item
         /\ final_processed_datasets[k].item.ms2_count_source_type # JStr("processing_error")
  /\ (pc = "done" /\ SomeWorkerRaised) =>
       \A i \in DOMAIN datasets :
         futures[i].outcome = "return" =>
           \E k \in DOMAIN final_processed_datasets :
             /\ final_processed_datasets[k].origin = i
             /\ final_processed_datasets[k].item =
                  process_single_dataset(datasets[i], food_item_key).item
  /\ (pc = "done" /\ output_file # Absent) => output_file.list = final_processed_datasets

C8_Witness ==
  /\ pc = "done"
  /\ output_file # Absent
  /\ SomeWorkerRaised
  /\ \E k \in DOMAIN output_file.list :
       /\ futures[output_file.list[k].origin].outcome = "return"
       /\ futures[output_file.list[k].origin].count_calls > 0
       /\ TotalOf(output_file.list[k].item).int > 0

\* the record of a dataset whose worker raised, but for the skipped count
ErrorTagged(x) ==
  /\ SelectedOf(x.item) = JList(<<>>)
  /\ TotalOf(x.item) = JInt(0)
  /\ x.item.ms2_count_source_type = JStr("processing_error")
  /\ x.item.processing_error_message = JStr(futures[x.origin].message)

\* C9 as stated: the record of a dataset whose worker raised has no selected
\* file, total 0 and skipped count 0, the tag processing_error and the message
C9_AsStated ==
  \A k \in DOMAIN final_processed_datasets :
    futures[final_processed_datasets[k].origin].outcome = "raise" =>
      /\ ErrorTagged(final_processed_datasets[k])
      /\ final_processed_datasets[k].item.unsupported_files_skipped_count = JInt(0)

\* C9 amended: the record of a dataset whose worker raised has no selected
\* file, total 0, the tag processing_error and the message; its skipped count
\* is not zeroed: it is the value the input record had for it, or the text
\* "Error occurred before count" when the input record had none
C9_ErrorRecordKeepsInputCount ==
  \A k \in DOMAIN final_processed_datasets :
    futures[final_processed_datasets[k].origin].outcome = "raise" =>
      /\ ErrorTagged(final_processed_datasets[k])
      /\ final_processed_datasets[k].item.unsupported_files_skipped_count =
           IF datasets[final_processed_datasets[k].origin].unsupported_files_skipped_count = Absent
           THEN JStr("Error occurred before count")
           ELSE datasets[final_processed_datasets[k].origin].unsupported_files_skipped_count

C9_Witness ==
  \E k \in DOMAIN final_processed_datasets :
    /\ futures[final_processed_datasets[k].origin].outcome = "raise"
    /\ futures[final_processed_datasets[k].origin].list_calls = 1
    /\ final_processed_datasets[k].item.unsupported_files_skipped_count
         = JStr("Error occurred before count")
    /\ final_processed_datasets[k].item.processing_error_message # JStr("")

EntriesOf(entries, i) == { k \in DOMAIN entries : entries[k].origin = i }

\* C10: every dataset is submitted once, is recorded at most once while the
\* results come in and once when they are all in, and the written output
\* holds one record for each dataset of the input
C10_ExactlyOnce ==
  /\ pc # "start" =>
       /\ Len(submissions) = Len(datasets)
       /\ DOMAIN futures = DOMAIN datasets
       /\ \A i \in DOMAIN datasets :
            Cardinality({ k \in DOMAIN submissions : submissions[k] = i }) = 1
  /\ \A i \in DOMAIN datasets : Cardinality(EntriesOf(final_processed_datasets, i)) <= 1
  /\ pc \in {"write", "done"} =>
       /\ Len(final_processed_datasets) = Len(datasets)
       /\ \A i \in DOMAIN datasets : Cardinality(EntriesOf(final_processed_datasets, i)) = 1
  /\ output_file # Absent =>
       /\ Len(output_file.list) = Len(datasets)
       /\ \A i \in DOMAIN datasets :
            /\ Cardinality(EntriesOf(output_file.list, i)) = 1
            /\ \A k \in EntriesOf(output_file.list, i) :
                 output_file.list[k].item.study_id = datasets[i].study_id

C10_Witness ==
  /\ output_file # Absent
  /\ Len(output_file.list) >= 2
  /\ datasets[1] = datasets[2]
  /\ futures[1].outcome = "raise"
  /\ Cardinality(EntriesOf(output_file.list, 1)) = 1
  /\ Cardinality(EntriesOf(output_file.list, 2)) = 1

(***************************************************************************)
(* Properties of the driver's output order, of failures while listing and  *)
(* counting, and of termination.                                           *)
(***************************************************************************)
\* the sort key of the dataset at position i of the input
InputKey(i) == Get(datasets[i].study_id, JStr("")).str

UniqueStudyIds ==
  \A i, j \in DOMAIN datasets : i # j => InputKey(i) # InputKey(j)

\* the record the driver appends for dataset i when its future is yielded
CompletionRecord(i) ==
  [origin |-> i,
   item |-> IF futures[i].outcome = "return" THEN futures[i].item
            ELSE ErrorRecord(datasets[i], futures[i].message)]

\* C11: the written list is in non-decreasing order of study identifier, and
\* with unique study identifiers the record of each dataset stands at the
\* rank of its identifier, whatever the order in which the workers completed
C11_SortedWhateverTheCompletionOrder ==
  output_file # Absent =>
    /\ \A k \in 1..(Len(output_file.list) - 1) :
         ~StrLess(StudyKey(output_file.list[k + 1]), StudyKey(output_file.list[k]))
    /\ UniqueStudyIds =>
         \A k \in DOMAIN output_file.list :
           /\ Cardinality({ j \in DOMAIN datasets :
                              StrLess(InputKey(j), InputKey(output_file.list[k].origin)) }) = k - 1
           /\ output_file.list[k] = CompletionRecord(output_file.list[k].origin)

C11_Witness ==
  /\ output_file # Absent
  /\ Len(output_file.list) >= 2
  /\ UniqueStudyIds
  /\ \E k \in DOMAIN completions : completions[k] # output_file.list[k].origin
  /\ \E k \in DOMAIN output_file.list : output_file.list[k].origin # k

AnalysisTag(i) == JStr("ftp_analysis_" \o ToLower(AssessmentOf(i).str) \o "_heuristic_filtered")

\* C12 as stated: once process_single_dataset has begun to count, it ends by
\* returning, with the analysis tag, one entry per selected file, and an
\* aggregate that holds every count accumulated; the driver's record of the
\* dataset holds them too
C12_AsStated ==
  /\ \A i \in DOMAIN futures :
       (futures[i].state = "finished" /\ futures[i].count_calls > 0) =>
         /\ futures[i].outcome = "return"
         /\ futures[i].item.ms2_count_source_type = AnalysisTag(i)
         /\ Len(SelectedOf(futures[i].item).list) = Len(futures[i].files)
         /\ TotalOf(futures[i].item).int >= futures[i].total
  /\ \A k \in DOMAIN final_processed_datasets :
       TotalOf(final_processed_datasets[k].item).int
         >= futures[final_processed_datasets[k].origin].total

\* the lines of the listing of dataset i that name a file which needs
\* conversion and which the classifier keeps
ConversionOnlyKept(i) ==
  { k \in DOMAIN RemoteAt(datasets[i].ftp_link).lftp.stdout :
      \E full_ftp_path \in { strip(RemoteAt(datasets[i].ftp_link).lftp.stdout[k]) } :
        /\ full_ftp_path # ""
        /\ ~endswith(full_ftp_path, "/")
        /\ ToLower(file_ext_of(basename(full_ftp_path))) \in MSCONVERT_SUPPORTED_RAW_EXTENSIONS
        /\ check_filename_relevance(ToLower(basename(full_ftp_path)),
                                    get_derived_food_name_regex_list(food_item_key),
                                    AssessmentOf(i).str).keep }

\* C13 as stated: with conversion disabled, the skipped count of a dataset
\* whose listing succeeded is the number of listed files that need conversion
\* and pass the classifier, and none of them is among the selected files
C13_AsStated ==
  ~ENABLE_MSCONVERT_PROCESSING =>
    \A i \in DOMAIN futures :
      (/\ futures[i].state = "finished"
       /\ futures[i].outcome = "return"
       /\ futures[i].list_calls = 1
       /\ RemoteAt(datasets[i].ftp_link).lftp.run = "completed"
       /\ RemoteAt(datasets[i].ftp_link).lftp.returncode = 0) =>
        /\ futures[i].item.unsupported_files_skipped_count
             = JInt(Cardinality(ConversionOnlyKept(i)))
        /\ \A k \in DOMAIN SelectedOf(futures[i].item).list :
             SelectedOf(futures[i].item).list[k].file_ext_lower
               \notin MSCONVERT_SUPPORTED_RAW_EXTENSIONS

\* the dataset of the end-to-end scenario, processed for the food key grain
IsGrainScenario(i) ==
  /\ food_item_key = "grain"
  /\ datasets[i] = Record(JStr("MSV001"), JStr("MAYBE"), JStr("ftp://massive.ucsd.edu/MSV001/"))

\* C14: in the end-to-end scenario the one selected file is
\* ctrl_raw_grain_01.mzML, kept for a reason that mentions raw, control or the
\* food match; beer_final_03.mzML is rejected as a processed product; and the
\* aggregate is the count of the kept file
C14_GrainScenario ==
  \A i \in DOMAIN futures :
    (IsGrainScenario(i) /\ futures[i].state = "finished") =>
      /\ futures[i].outcome = "return"
      /\ Len(SelectedOf(futures[i].item).list) = 1
      /\ \E kept \in { SelectedOf(futures[i].item).list[1] } :
           /\ kept.filename = "ctrl_raw_grain_01.mzML"
           /\ \/ Contains(kept.heuristic_match_reason, "raw")
              \/ Contains(kept.heuristic_match_reason, "control")
              \/ Contains(kept.heuristic_match_reason, "food_match")
           /\ kept.ms2_spectra_in_file =
                count_ms2_spectra_in_text_file_via_ftp(".mzml",
                   CurlFor(GrainRemote, "/MSV001/ctrl_raw_grain_01.mzML"))
           /\ TotalOf(futures[i].item) = JInt(kept.ms2_spectra_in_file)
      /\ check_filename_relevance("beer_final_03.mzml",
                                  get_derived_food_name_regex_list(food_item_key), "MAYBE")
           = Verdict(FALSE, "maybe_processed_product_no_raw_control_signal")

C14_Witness ==
  \E i \in DOMAIN futures :
    /\ IsGrainScenario(i)
    /\ futures[i].state = "finished"
    /\ futures[i].list_calls = 1
    /\ futures[i].count_calls = 1
    /\ TotalOf(futures[i].item) = JInt(5)

(***************************************************************************)
(* The food-key generator on its own: one food key, built from tokens      *)
(* joined by underscores.                                                  *)
(***************************************************************************)
MaxKeyTokens == 3

KeyTokens == {"", "b", "ab", "oat", "Oat", "o.t", "rice"}

RECURSIVE KeysOf(_)
\* the keys of exactly k tokens
KeysOf(k) ==
  IF k = 1 THEN KeyTokens
  ELSE { head \o "_" \o token : head \in KeysOf(k - 1), token \in KeyTokens }

DeriveKeys == UNION { KeysOf(k) : k \in 1..MaxKeyTokens }

InitDerive ==
  /\ ClassifierIdle
  /\ DriverIdle
  /\ SelectionIdle
  /\ food_item_key \in DeriveKeys
  /\ derived_food_name_regex = NotDerived
  /\ LabelIdle
  /\ CleanIdle

\* line 284, lines 254-262
Derive ==
  /\ derived_food_name_regex = NotDerived
  /\ derived_food_name_regex' = get_derived_food_name_regex_list(food_item_key)
  /\ UNCHANGED <<food_item_key, classifier_vars, driver_vars, selection_vars, label_vars, clean_vars>>

NextDerive == Derive

SpecDerive == InitDerive /\ [][NextDerive]_vars

(***************************************************************************)
(* Properties of the food-key generator.                                   *)
(***************************************************************************)
Derived == derived_food_name_regex # NotDerived

\* the distinct underscore-delimited tokens of the key longer than 2 characters
LongTokens ==
  { split_underscore(food_item_key)[k] : k \in
      { j \in DOMAIN split_underscore(food_item_key) :
          Len(split_underscore(food_item_key)[j]) > 2 } }

\* the texts the claim gives a pattern to
PatternTexts == IF food_item_key = "" THEN {} ELSE LongTokens \cup {food_item_key}

PatternsOf(text) ==
  { k \in DOMAIN derived_food_name_regex :
      /\ derived_food_name_regex[k].pattern = "\\b" \o re_escape(text) \o "\\b"
      /\ derived_food_name_regex[k].lit = ToLower(text)
      /\ derived_food_name_regex[k].wbS
      /\ derived_food_name_regex[k].wbE }

\* C15: the generator returns one word-boundary pattern for each distinct
\* token longer than 2 characters and one for the whole key, nothing else and
\* nothing twice; the empty key gives the empty list
C15_OnePatternPerTokenAndKey ==
  Derived =>
    /\ food_item_key = "" => derived_food_name_regex = <<>>
    /\ \A text \in PatternTexts : Cardinality(PatternsOf(text)) = 1
    /\ \A k \in DOMAIN derived_food_name_regex : \E text \in PatternTexts : k \in PatternsOf(text)
    /\ Len(derived_food_name_regex) = Cardinality(PatternTexts)

C15_Witness ==
  /\ Derived
  /\ Len(split_underscore(food_item_key)) = 3
  /\ Cardinality(LongTokens) = 1
  /\ split_underscore(food_item_key)[1] = split_underscore(food_item_key)[3]
  /\ Len(split_underscore(food_item_key)[2]) = 2
  /\ Len(derived_food_name_regex) = 2

\* the strings of one or two characters over the characters of the keys
ShortAlphabet == {"a", "b", "o", "t", "_", "."}

ShortStrings == ShortAlphabet \cup { c \o d : c \in ShortAlphabet, d \in ShortAlphabet }

MatchesShortString(rgx) == \E s \in ShortStrings : search(rgx, s)

\* C16 as stated: no returned pattern matches a string of length <= 2
C16_AsStated ==
  Derived => \A k \in DOMAIN derived_food_name_regex : ~MatchesShortString(derived_food_name_regex[k])

\* C16 amended: a token of length <= 2 gets no pattern of its own: every
\* returned pattern is that of a token longer than 2 characters or that of the
\* whole key, and a returned pattern matches a string of length <= 2 only when
\* the whole key is 1 or 2 characters long, and is then the pattern of the key
C16_ShortPatternOnlyForShortKey ==
  Derived =>
    \A k \in DOMAIN derived_food_name_regex :
      /\ \/ Len(derived_food_name_regex[k].lit) > 2
         \/ derived_food_name_regex[k].pattern = "\\b" \o re_escape(food_item_key) \o "\\b"
      /\ MatchesShortString(derived_food_name_regex[k]) =>
           /\ Len(food_item_key) \in 1..2
           /\ derived_food_name_regex[k].pattern = "\\b" \o re_escape(food_item_key) \o "\\b"

C16_Witness ==
  /\ Derived
  /\ Len(food_item_key) = 2
  /\ Len(derived_food_name_regex) = 1
  /\ search(derived_food_name_regex[1], food_item_key)

\* the sum of the per-file counts of a selected-file list
SumOfCounts(files) ==
  LET sum[k \in 0..Len(files)] ==
        IF k = 0 THEN 0 ELSE sum[k - 1] + files[k].ms2_spectra_in_file
  IN sum[Len(files)]

CountsAddUp(item) ==
  /\ TotalOf(item) = JInt(SumOfCounts(SelectedOf(item).list))
  /\ \A k \in DOMAIN SelectedOf(item).list :
       SelectedOf(item).list[k].ms2_spectra_in_file \in Nat

\* the count command of the k-th file to count of dataset i did not give a count
CountFailed(i, k) ==
  \E curl \in { CurlFor(RemoteAt(datasets[i].ftp_link), futures[i].files[k].ftp_file_path) } :
    \/ curl.run = "timeout"
    \/ curl.returncode > 1
    \/ ~parse_int(strip(curl.stdout)).ok

\* C17: in every result process_single_dataset returns, and in the driver's
\* record of it, the aggregate is the sum of the per-file counts of the
\* selected-file list and every per-file count is a natural number, 0 for a
\* file whose count failed
C17_AggregateIsSumOfCounts ==
  /\ \A i \in DOMAIN futures :
       (futures[i].state = "finished" /\ futures[i].outcome = "return") =>
         /\ CountsAddUp(futures[i].item)
         /\ \A k \in DOMAIN futures[i].files :
              CountFailed(i, k) => SelectedOf(futures[i].item).list[k].ms2_spectra_in_file = 0
  /\ \A k \in DOMAIN final_processed_datasets :
       futures[final_processed_datasets[k].origin].outcome = "return" =>
         CountsAddUp(final_processed_datasets[k].item)

C17_Witness ==
  \E i \in DOMAIN futures :
    /\ futures[i].state = "finished"
    /\ futures[i].outcome = "return"
    /\ Len(SelectedOf(futures[i].item).list) >= 3
    /\ \E k \in DOMAIN futures[i].files : CountFailed(i, k)
    /\ \E k, l \in DOMAIN SelectedOf(futures[i].item).list :
         /\ k # l
         /\ SelectedOf(futures[i].item).list[k].ms2_spectra_in_file > 0
         /\ SelectedOf(futures[i].item).list[l].ms2_spectra_in_file > 0
    /\ TotalOf(futures[i].item).int > 0

\* the listing command of dataset i timed out or ended with a failure status
\* (127 when lftp is not installed)
ListingFailed(i) ==
  \E lftp \in { RemoteAt(datasets[i].ftp_link).lftp } :
    \/ lftp.run = "timeout"
    \/ lftp.run = "completed" /\ lftp.returncode # 0

CountTimedOut(i, k) ==
  CurlFor(RemoteAt(datasets[i].ftp_link), futures[i].files[k].ftp_file_path).run = "timeout"

\* every count command of dataset i, up to its k-th file, could be started
CountsStarted(i, k) ==
  \A l \in 1..k :
    CurlFor(RemoteAt(datasets[i].ftp_link), futures[i].files[l].ftp_file_path).run # "oserror"

\* C19: a file whose count command timed out is recorded with count 0, the
\* files after it are counted, and the dataset returns with the analysis tag
C19_CountTimeoutIsZero ==
  \A i \in DOMAIN futures :
    \A k \in DOMAIN futures[i].files :
      CountTimedOut(i, k) =>
        /\ Len(futures[i].details) >= k =>
             /\ futures[i].details[k].filename = futures[i].files[k].filename
             /\ futures[i].details[k].ms2_spectra_in_file = 0
        /\ (Len(futures[i].details) = k /\ k < Len(futures[i].files) /\ CountsStarted(i, k)) =>
             futures[i].state = "running"
        /\ (futures[i].state = "finished" /\ CountsStarted(i, Len(futures[i].files))) =>
             /\ futures[i].outcome = "return"
             /\ Len(SelectedOf(futures[i].item).list) = Len(futures[i].files)
             /\ SelectedOf(futures[i].item).list[k].ms2_spectra_in_file = 0
             /\ futures[i].item.ms2_count_source_type = AnalysisTag(i)

C19_Witness ==
  \E i \in DOMAIN futures :
    /\ futures[i].state = "finished"
    /\ futures[i].outcome = "return"
    /\ \E k, l \in DOMAIN SelectedOf(futures[i].item).list :
         /\ k < l
         /\ CountTimedOut(i, k)
         /\ SelectedOf(futures[i].item).list[k].ms2_spectra_in_file = 0
         /\ SelectedOf(futures[i].item).list[l].ms2_spectra_in_file > 0
    /\ futures[i].item.ms2_count_source_type = AnalysisTag(i)

Terminated == pc \in {"done", "returned"}

EndedWell ==
  IF ~IsList(input_file)
  THEN pc = "returned" /\ output_file = Absent
  ELSE /\ pc = "done"
       /\ Len(final_processed_datasets) = Len(input_file.list)
       /\ \A j \in DOMAIN datasets :
            \E k \in DOMAIN final_processed_datasets :
              final_processed_datasets[k] = CompletionRecord(j)
       /\ output_file # Absent => output_file.list = final_processed_datasets

TreatmentWithoutControl == "maybe_treatment_file_no_food_match_lacks_explicit_control_raw"

\* C22: check_filename_relevance never returns the reason of the
\* treatment-without-control branch (line 241), for any filename, food key
\* and assessment
C22_TreatmentBranchUnreachable == verdict.reason # TreatmentWithoutControl

\* a MAYBE file with a treatment term reaches line 239 and passes line 240
C22_Witness ==
  /\ assessment_type = "MAYBE"
  /\ AnySearch(COMPILED_TREATMENT, ToLower(filename))
  /\ ~AnySearch(get_derived_food_name_regex_list(food_item_key), ToLower(filename))
  /\ verdict = Verdict(TRUE, "maybe_no_food_match_but_strong_raw_control_signal")

(***************************************************************************)
(* The labelling step (decision.py, lines 65-130):                         *)
(* analyze_and_categorize_dataset asks the external service for an         *)
(* assessment of one entry and retries when the call fails.                *)
(***************************************************************************)
LowerSet == CharsOf(LowerChars)

\* str.upper() on one character
UpperChar(c) ==
  IF c \in LowerSet
  THEN CharAt(UpperChars, CHOOSE i \in 1..Len(LowerChars) : CharAt(LowerChars, i) = c)
  ELSE c

RECURSIVE ToUpper(_)
\* str.upper()
ToUpper(s) == IF s = "" THEN "" ELSE UpperChar(Head(s)) \o ToUpper(Tail(s))

RECURSIVE SplitLinesFrom(_, _, _)
\* str.splitlines(): cur is the line being read, acc the lines read so far
SplitLinesFrom(s, cur, acc) ==
  IF s = "" THEN (IF cur = "" THEN acc ELSE Append(acc, cur))
  ELSE IF Head(s) = "\r" /\ Len(s) > 1 /\ CharAt(s, 2) = "\n"
  THEN SplitLinesFrom(Tail(s), cur, acc)
  ELSE IF Head(s) \in {"\n", "\r"} THEN SplitLinesFrom(Tail(s), "", Append(acc, cur))
  ELSE SplitLinesFrom(Tail(s), cur \o Head(s), acc)

splitlines(s) == SplitLinesFrom(s, "", <<>>)

\* s.split(sep)[-1]: what follows the last sep, or s when sep is not found
AfterLast(s, sep) ==
  LET at == { i \in 1..(Len(s) - Len(sep) + 1) : SubSeq(s, i, i + Len(sep) - 1) = sep }
  IN IF at = {} THEN s ELSE SubSeq(s, MaxOf(at) + Len(sep), Len(s))

ValidAssessments == {"ACCEPTED", "MAYBE", "REJECTED"}

Labelled(assessment, reason) == [assessment |-> assessment, reason |-> reason]

DefaultReason == "LLM response parsing failed or no reason provided."

\* lines 86-100: the assessment read from the first line of the answer
FirstLine(first, content) ==
  Bind(ToLower(first), LAMBDA first_line_lower :
  Bind(ToUpper(first), LAMBDA first_upper :
    IF Contains(first_line_lower, "overall assessment:")
    THEN Bind(ToUpper(strip(AfterLast(first_line_lower, "overall assessment:"))), LAMBDA val :
           IF val \in ValidAssessments
           THEN Labelled(val, DefaultReason)
           ELSE Labelled("REJECTED",
                         "LLM returned unexpected assessment value: " \o val
                           \o ". Original response: " \o content))
    ELSE IF Contains(first_upper, "ACCEPTED") THEN Labelled("ACCEPTED", DefaultReason)
    ELSE IF Contains(first_upper, "MAYBE") THEN Labelled("MAYBE", DefaultReason)
    ELSE IF Contains(first_upper, "REJECTED") THEN Labelled("REJECTED", DefaultReason)
    ELSE Labelled("REJECTED",
                  "Could not parse 'Overall Assessment:' keyword. Original response: "
                    \o content)))

\* lines 102-110: the reason read from the second line of the answer
SecondLine(second) ==
  IF Contains(ToLower(second), "reason:")
  THEN strip(AfterLast(second, "reason:"))
  ELSE IF strip(second) # "" THEN strip(second)
  ELSE "No specific reason provided by LLM on second line."

\* lines 78-113: what is made of the text of an answer
ParseResponse(text) ==
  Bind(strip(text), LAMBDA content :
  Bind(splitlines(content), LAMBDA ls :
    IF ls = <<>> THEN Labelled("REJECTED", DefaultReason)
    ELSE Bind(FirstLine(ls[1], content), LAMBDA first :
           IF Len(ls) > 1 THEN Labelled(first.assessment, SecondLine(ls[2]))
           ELSE IF first.assessment # "REJECTED"
           THEN Labelled(first.assessment,
                         "LLM provided assessment but no separate reason line.")
           ELSE first)))

\* what the service may do at one call: fail, answer without a text, or
\* answer with a text
ApiError == [kind |-> "raise", message |-> "Connection error."]

NoContent == [kind |-> "raise", message |-> "'NoneType' object has no attribute 'strip'"]

Answer(text) == [kind |-> "text", message |-> text]

AnswerTexts ==
  { "Overall Assessment: ACCEPTED\nReason: raw grains profiled",
    "overall assessment: maybe\nraw controls could be present",
    "Overall Assessment: [ACCEPTED]\nReason: explicit",
    "  MAYBE  ",
    "The study is REJECTED\n\nReason: beer only",
    "Overall Assessment: REJECTED",
    "Not accepted.\r\nreason:   ",
    "I cannot tell",
    "" }

Responses == { ApiError, NoContent } \cup { Answer(text) : text \in AnswerTexts }

MaxRetries == 3

RetryDelays == {0, 10}

\* an entry as scraped, and one that carries an assessment of an earlier run
Entries ==
  { [study_id |-> JStr("MSV000003"), title |-> JStr("Metabolite profiling"),
     llm_assessment |-> Absent, llm_reason |-> Absent],
    [study_id |-> Absent, title |-> JStr("Beer aroma"),
     llm_assessment |-> JStr("MAYBE"), llm_reason |-> JStr("as assessed")] }

InitLabel ==
  /\ ClassifierIdle
  /\ DriverIdle
  /\ SelectionIdle
  /\ DeriveIdle
  /\ food_item_key = ""
  /\ entry \in Entries
  /\ retry_delay \in RetryDelays
  /\ first_retry_delay = retry_delay
  /\ max_retries \in 0..MaxRetries
  /\ attempt = 0
  /\ response = NoResponse
  /\ service_calls = 0
  /\ sleeps = <<>>
  /\ lpc = "loop"
  /\ CleanIdle

WithLabel(e, assessment, reason) ==
  [e EXCEPT !.llm_assessment = JStr(assessment), !.llm_reason = JStr(reason)]

RECURSIVE IntText(_)
\* the text an f-string makes of a natural number
IntText(n) ==
  IF n < 10 THEN CharAt(DigitChars, n + 1)
  ELSE IntText(n \div 10) \o CharAt(DigitChars, (n % 10) + 1)

\* variant: the wait is made after the last attempt as well
Attempt_always_waits(r) ==
  /\ lpc = "loop"
  /\ attempt < max_retries
  /\ service_calls' = service_calls + 1
  /\ response' = r
  /\ IF r.kind = "text"
     THEN /\ entry' = Bind(ParseResponse(r.message), LAMBDA l :
                        WithLabel(entry, l.assessment, l.reason))
          /\ lpc' = "returned"
          /\ UNCHANGED <<attempt, retry_delay, sleeps>>
     ELSE /\ attempt' = attempt + 1
          /\ sleeps' = Append(sleeps, retry_delay)
          /\ retry_delay' = retry_delay + 5
          /\ IF attempt' < max_retries
             THEN UNCHANGED <<entry, lpc>>
             ELSE /\ entry' = WithLabel(entry, "REJECTED",
                                "Failed after " \o IntText(max_retries)
                                  \o " API attempts. Last error: " \o r.message)
                  /\ lpc' = "returned"
  /\ UNCHANGED <<max_retries, first_retry_delay, food_item_key, classifier_vars,
                 driver_vars, selection_vars, derive_vars, clean_vars>>

\* lines 70-127: one pass of the loop; r is what the service does
Attempt(r) ==
  /\ lpc = "loop"
  /\ attempt < max_retries
  /\ service_calls' = service_calls + 1
  /\ response' = r
  /\ IF r.kind = "text"
     THEN /\ entry' = Bind(ParseResponse(r.message), LAMBDA l :
                        WithLabel(entry, l.assessment, l.reason))
          /\ lpc' = "returned"
          /\ UNCHANGED <<attempt, retry_delay, sleeps>>
     ELSE /\ attempt' = attempt + 1
          /\ IF attempt' < max_retries
             THEN /\ sleeps' = Append(sleeps, retry_delay)
                  /\ retry_delay' = retry_delay + 5
                  /\ UNCHANGED <<entry, lpc>>
             ELSE /\ entry' = WithLabel(entry, "REJECTED",
                                "Failed after " \o IntText(max_retries)
                                  \o " API attempts. Last error: " \o r.message)
                  /\ lpc' = "returned"
                  /\ UNCHANGED <<retry_delay, sleeps>>
  /\ UNCHANGED <<max_retries, first_retry_delay, food_item_key, classifier_vars,
                 driver_vars, selection_vars, derive_vars, clean_vars>>

\* lines 128-130: the loop is left without a call having been made
LoopExit ==
  /\ lpc = "loop"
  /\ attempt >= max_retries
  /\ entry' = WithLabel(entry, "REJECTED", "Max retries reached or unexpected error loop exit.")
  /\ lpc' = "returned"
  /\ UNCHANGED <<retry_delay, max_retries, attempt, response, service_calls, sleeps,
                 first_retry_delay, food_item_key, classifier_vars, driver_vars,
                 selection_vars, derive_vars, clean_vars>>

NextLabel ==
  \/ \E r \in Responses : Attempt(r)
  \/ LoopExit

SpecLabel == InitLabel /\ [][NextLabel]_vars

\* the first line of an answer names none of the three assessments
Unparsable(text) ==
  Bind(splitlines(strip(text)), LAMBDA ls :
    \/ ls = <<>>
    \/ \A a \in ValidAssessments : ~Contains(ToUpper(ls[1]), a))

\* C23: analyze_and_categorize_dataset calls the labelling service at most
\* max_retries times; the waits between failed attempts are retry_delay,
\* retry_delay + 5, ..., one after every failed attempt but the last; and it
\* returns with the assessment of the entry set to ACCEPTED, MAYBE or
\* REJECTED, REJECTED when every attempt failed or the answer names no
\* assessment
C23_BoundedRetriesWithBackoff ==
  /\ service_calls <= max_retries
  /\ \A k \in DOMAIN sleeps : sleeps[k] = first_retry_delay + 5 * (k - 1)
  /\ Len(sleeps) = (IF lpc = "returned" /\ attempt = max_retries /\ attempt > 0
                    THEN attempt - 1 ELSE attempt)
  /\ lpc = "returned" =>
       /\ entry.llm_assessment \in { JStr(a) : a \in ValidAssessments }
       /\ service_calls = 0 => entry.llm_assessment = JStr("REJECTED")
       /\ (service_calls > 0 /\ response.kind = "raise") =>
             (attempt = max_retries /\ entry.llm_assessment = JStr("REJECTED"))
       /\ (service_calls > 0 /\ response.kind = "text" /\ Unparsable(response.message)) =>
             entry.llm_assessment = JStr("REJECTED")

\* every attempt failed: two waits, the second longer, and none after the
\* third attempt
C23_Witness ==
  /\ lpc = "returned"
  /\ max_retries = 3
  /\ service_calls = 3
  /\ sleeps = <<first_retry_delay, first_retry_delay + 5>>
  /\ entry.llm_assessment = JStr("REJECTED")

(***************************************************************************)
(* What the core leaves alone.                                             *)
(***************************************************************************)
\* the fields set by the scrape and by the labelling step
GivenFields == {"study_id", "study_title", "llm_assessment", "llm_reason", "ftp_link"}

\* the record r differs from the input record d in result fields only; the
\* error message is written with the processing_error tag only
SameGiven(r, d) ==
  /\ DOMAIN r = DOMAIN d
  /\ \A f \in GivenFields : r[f] = d[f]
  /\ r.ms2_count_source_type # JStr("processing_error") =>
       r.processing_error_message = d.processing_error_message

\* C24: on every path of process_single_dataset and of the driver, the error
\* path included, the assessment, its justification, the study identifier
\* and the scraped fields of a dataset are what they were in the input; the
\* core writes the selected-file list, the aggregate count, the skipped count
\* and the source-type tag, and the error message on error only
C24_GivenFieldsUnchanged ==
  /\ \A i \in DOMAIN futures :
       futures[i].item # Absent => SameGiven(futures[i].item, datasets[i])
  /\ \A k \in DOMAIN final_processed_datasets :
       SameGiven(final_processed_datasets[k].item,
                 datasets[final_processed_datasets[k].origin])
  /\ output_file # Absent =>
       \A k \in DOMAIN output_file.list :
         SameGiven(output_file.list[k].item, datasets[output_file.list[k].origin])

\* a written batch with a dataset whose worker raised and one that was counted
C24_Witness ==
  /\ output_file # Absent
  /\ \E k \in DOMAIN output_file.list :
       /\ output_file.list[k].item.ms2_count_source_type = JStr("processing_error")
       /\ output_file.list[k].item.llm_assessment = JStr("ACCEPTED")
  /\ \E k \in DOMAIN output_file.list :
       /\ output_file.list[k].item.selected_files_for_ms2_analysis # JList(<<>>)
       /\ output_file.list[k].item.total_ms2_spectra_from_selected_files # JInt(0)

(***************************************************************************)
(* Files that need conversion (lines 303-320 and 350-359).                 *)
(***************************************************************************)
\* the path named by line k of the listing of dataset i
ListedPath(i, k) == strip(RemoteAt(datasets[i].ftp_link).lftp.stdout[k])

SelectedPaths(item) ==
  { SelectedOf(item).list[n].ftp_file_path : n \in DOMAIN SelectedOf(item).list }

\* C25 as stated: a listed file that needs conversion and that the classifier
\* keeps is among the selected files only if conversion is enabled; with
\* conversion disabled it is not selected and it is counted in
\* unsupported_files_skipped_count
C25_AsStated ==
  \A i \in DOMAIN futures :
    (/\ futures[i].state = "finished"
     /\ futures[i].outcome = "return"
     /\ futures[i].list_calls = 1
     /\ RemoteAt(datasets[i].ftp_link).lftp.run = "completed"
     /\ RemoteAt(datasets[i].ftp_link).lftp.returncode = 0) =>
      /\ \A k \in ConversionOnlyKept(i) :
           ListedPath(i, k) \in SelectedPaths(futures[i].item) => ENABLE_MSCONVERT_PROCESSING
      /\ ~ENABLE_MSCONVERT_PROCESSING =>
           /\ \A k \in ConversionOnlyKept(i) :
                ListedPath(i, k) \notin SelectedPaths(futures[i].item)
           /\ ConversionOnlyKept(i) # {} =>
                futures[i].item.unsupported_files_skipped_count.int >= 1

(***************************************************************************)
(* Datasets without an assessment, or with one that is not known.          *)
(***************************************************************************)
KnownAssessments == {JStr("ACCEPTED"), JStr("MAYBE"), JStr("REJECTED")}

UnknownReason == "unknown_assessment_type_or_unmatched_condition_in_heuristic"

\* the verdicts of the classifier on the files listed for dataset i
ListedVerdicts(i) ==
  Bind(list_mass_spec_files_recursively(RemoteAt(datasets[i].ftp_link).lftp),
       LAMBDA all_ftp_files_info :
         Verdicts(all_ftp_files_info, get_derived_food_name_regex_list(food_item_key),
                  IF IsStr(datasets[i].llm_assessment)
                  THEN datasets[i].llm_assessment.str ELSE ""))

\* a dataset without the assessment field is tagged rejected_by_llm and
\* returns before any listing or counting
EndsEarlyWithoutAssessment(i) ==
  datasets[i].llm_assessment = Absent =>
    /\ futures[i].outcome = "return"
    /\ futures[i].item.ms2_count_source_type = JStr("rejected_by_llm")
    /\ futures[i].list_calls = 0
    /\ futures[i].count_calls = 0

UnknownAssessment(i) ==
  datasets[i].llm_assessment # Absent /\ datasets[i].llm_assessment \notin KnownAssessments

\* the listed files of dataset i are classified
WasClassified(i) ==
  /\ HasFtpLink(i)
  /\ RemoteAt(datasets[i].ftp_link).lftp.run = "completed"
  /\ RemoteAt(datasets[i].ftp_link).lftp.returncode = 0

\* C26 as stated: a dataset without assessment ends early with the tag
\* rejected_by_llm, without listing or counting; a dataset with an assessment
\* other than ACCEPTED, MAYBE, REJECTED has no file selected, every listed
\* file being rejected with the unknown-assessment reason
C26_AsStated ==
  \A i \in DOMAIN futures :
    futures[i].state = "finished" =>
      /\ EndsEarlyWithoutAssessment(i)
      /\ UnknownAssessment(i) =>
           /\ futures[i].files = <<>>
           /\ futures[i].count_calls = 0
           /\ WasClassified(i) =>
                \A k \in DOMAIN ListedVerdicts(i) :
                  ListedVerdicts(i)[k] = Verdict(FALSE, UnknownReason)

\* C26 amended: a dataset without assessment ends early with the tag
\* rejected_by_llm, without listing or counting; a dataset with an assessment
\* other than ACCEPTED, MAYBE, REJECTED has no file selected and none
\* counted: the classifier rejects every listed file, with the reason
\* qc_or_blank_file when the name has a QC term and with the
\* unknown-assessment reason otherwise; when the assessment is not a string
\* the worker raises and the record is written as a processing error with an
\* empty list
C26_UnknownAssessmentSelectsNothing ==
  /\ \A i \in DOMAIN futures :
       futures[i].state = "finished" =>
         /\ EndsEarlyWithoutAssessment(i)
         /\ UnknownAssessment(i) =>
              /\ futures[i].files = <<>>
              /\ futures[i].count_calls = 0
              /\ ~IsStr(datasets[i].llm_assessment) /\ HasFtpLink(i) =>
                   futures[i].outcome = "raise"
              /\ WasClassified(i) =>
                   \A k \in DOMAIN ListedVerdicts(i) :
                     ListedVerdicts(i)[k] =
                       Verdict(FALSE,
                               IF AnySearch(COMPILED_QC,
                                    ToLower(list_mass_spec_files_recursively(
                                      RemoteAt(datasets[i].ftp_link).lftp)[k].filename))
                               THEN "qc_or_blank_file" ELSE UnknownReason)
  /\ \A k \in DOMAIN final_processed_datasets :
       UnknownAssessment(final_processed_datasets[k].origin) =>
         SelectedOf(final_processed_datasets[k].item) = JList(<<>>)

\* a dataset assessed PENDING whose listing holds sample files and a blank
C26_Witness ==
  /\ pc = "done"
  /\ \E k \in DOMAIN final_processed_datasets :
       /\ datasets[final_processed_datasets[k].origin].llm_assessment = JStr("PENDING")
       /\ futures[final_processed_datasets[k].origin].list_calls = 1
       /\ Len(ListedVerdicts(final_processed_datasets[k].origin)) > 1
       /\ final_processed_datasets[k].item.ms2_count_source_type
            = JStr("no_processable_files_passed_heuristics_pending")

(***************************************************************************)
(* The truncation of lines 334-340 within a dataset.                       *)
(***************************************************************************)
\* the candidates of a dataset record for a food key, in the order of the
\* listing
CandidatesOf(d, key) ==
  IF ~(IsStr(d.llm_assessment) /\ IsStr(d.ftp_link)) THEN <<>>
  ELSE Bind(list_mass_spec_files_recursively(RemoteAt(d.ftp_link).lftp),
            LAMBDA all_ftp_files_info :
              Bind(Verdicts(all_ftp_files_info, get_derived_food_name_regex_list(key),
                            d.llm_assessment.str),
                   LAMBDA verdicts : CandidateFiles(all_ftp_files_info, verdicts)))

CandidatesByRecord ==
  [d \in BatchPool \cup SinglePool |-> [key \in DriverFoodKeys |-> CandidatesOf(d, key)]]

ListingCandidates(i) == CandidatesByRecord[datasets[i]][food_item_key]

\* C27: every kept file of one dataset has the same sort key (the reasons a
\* MAYBE file is kept for mention raw or control, the reason an ACCEPTED file
\* is kept for does not), so that when a dataset has more candidates than the
\* limit, the stable sort leaves them in listing order and the selected files
\* are the first MAX_FILES_FOR_MS2_COUNTING candidates of the listing
C27_FirstCandidatesOfTheListing ==
  \A i \in DOMAIN futures :
    futures[i].files # <<>> =>
      \E kept \in {ListingCandidates(i)} :
        /\ \A a \in DOMAIN kept :
             SortKey(kept[a]) = (IF datasets[i].llm_assessment = JStr("MAYBE") THEN 0 ELSE 1)
        /\ Len(kept) > MAX_FILES_FOR_MS2_COUNTING =>
             futures[i].files = SubSeq(kept, 1, MAX_FILES_FOR_MS2_COUNTING)

\* a MAYBE dataset with eleven candidates kept for two different reasons
C27_Witness ==
  \E i \in DOMAIN futures :
    /\ datasets[i].llm_assessment = JStr("MAYBE")
    /\ futures[i].state = "finished"
    /\ Len(futures[i].files) = MAX_FILES_FOR_MS2_COUNTING
    /\ Len(ListingCandidates(i)) > MAX_FILES_FOR_MS2_COUNTING
    /\ Len(ListingCandidates(i)) < Len(RemoteAt(datasets[i].ftp_link).entries)
    /\ \E a, b \in DOMAIN futures[i].files :
         futures[i].files[a].heuristic_match_reason # futures[i].files[b].heuristic_match_reason

(***************************************************************************)
(* The MAYBE rules of check_filename_relevance as one condition.           *)
(***************************************************************************)
\* the condition under which a MAYBE file is kept; the treatment terms do not
\* occur in it
MaybeKeeps(filename_lower, derived_food_name_regex_list) ==
  LET qc == AnySearch(COMPILED_QC, filename_lower)
      processed == AnySearch(COMPILED_PROCESSED, filename_lower)
      non_edible == AnySearch(COMPILED_NON_EDIBLE, filename_lower)
      control == AnySearch(COMPILED_CONTROL, filename_lower)
      raw == AnySearch(COMPILED_RAW, filename_lower)
      generic_edible == AnySearch(COMPILED_GENERIC_EDIBLE_PART, filename_lower)
      food_match == AnySearch(derived_food_name_regex_list, filename_lower)
  IN /\ ~qc
     /\ ~(processed /\ ~(control \/ raw))
     /\ ~(non_edible /\ ~(generic_edible \/ control))
     /\ (raw \/ control \/ (food_match /\ generic_edible))

TreatmentReasons ==
  { TreatmentWithoutControl, "maybe_treatment_file_lacks_any_positive_signal" }

\* C28: for assessment MAYBE the file is kept exactly when it matches no QC
\* term, is not (processed without control or raw), is not (non-edible
\* without generic-edible or control), and has a raw term, a control term or
\* a food match with a generic-edible term; a treatment term does not occur
\* in the condition and shows only in the reason of a rejected file
C28_MaybeClosedForm ==
  (assessment_type = "MAYBE" /\ verdict # NoVerdict) =>
    /\ verdict.keep = MaybeKeeps(ToLower(filename),
                                 get_derived_food_name_regex_list(food_item_key))
    /\ verdict.reason \in TreatmentReasons =>
         (~verdict.keep /\ AnySearch(COMPILED_TREATMENT, ToLower(filename)))

\* a MAYBE file with a treatment term, no raw and no control term, kept for
\* its food match with a generic-edible term
C28_Witness ==
  /\ assessment_type = "MAYBE"
  /\ AnySearch(COMPILED_TREATMENT, ToLower(filename))
  /\ ~AnySearch(COMPILED_RAW, ToLower(filename))
  /\ ~AnySearch(COMPILED_CONTROL, ToLower(filename))
  /\ verdict = Verdict(TRUE, "maybe_food_match_with_raw_control_or_edible_term")

(***************************************************************************)
(* The source-type tag of a record and its result fields.                  *)
(***************************************************************************)
\* the assessment as the tags of lines 292, 328 and 369 spell it
LowerAssessment(item) ==
  IF IsStr(item.llm_assessment) THEN ToLower(item.llm_assessment.str) ELSE ""

\* the tags a record may carry, by kind
TagOfKind(item, kind) ==
  CASE kind = "rejected" -> "rejected_by_llm"
    [] kind = "no link" -> "no_ftp_link"
    [] kind = "no files" -> "ftp_no_files_found_" \o LowerAssessment(item)
    [] kind = "no processable files" ->
         "no_processable_files_passed_heuristics_" \o LowerAssessment(item)
    [] kind = "analysis" -> "ftp_analysis_" \o LowerAssessment(item) \o "_heuristic_filtered"
    [] kind = "error" -> "processing_error"

TagKinds == {"rejected", "no link", "no files", "no processable files", "analysis", "error"}

KindsOf(item) ==
  { kind \in TagKinds : item.ms2_count_source_type = JStr(TagOfKind(item, kind)) }

TagAgrees(item) ==
  /\ Cardinality(KindsOf(item)) = 1
  /\ (SelectedOf(item) # JList(<<>>)) <=> (KindsOf(item) = {"analysis"})
  /\ KindsOf(item) # {"analysis"} =>
       (SelectedOf(item) = JList(<<>>) /\ TotalOf(item) = JInt(0))

\* C29: every record of the results and of the written output carries one
\* source-type tag, of exactly one kind; its selected-file list is non-empty
\* exactly when the tag is the analysis tag of its assessment, and with any
\* other tag the list is empty and the aggregate count is 0
C29_TagAgreesWithResults ==
  /\ \A k \in DOMAIN final_processed_datasets : TagAgrees(final_processed_datasets[k].item)
  /\ output_file # Absent =>
       \A k \in DOMAIN output_file.list : TagAgrees(output_file.list[k].item)

\* a written batch with an analysed dataset next to one whose worker raised
C29_Witness ==
  /\ output_file # Absent
  /\ \E k \in DOMAIN output_file.list :
       /\ KindsOf(output_file.list[k].item) = {"analysis"}
       /\ Len(SelectedOf(output_file.list[k].item).list) >= 2
  /\ \E k \in DOMAIN output_file.list :
       /\ KindsOf(output_file.list[k].item) = {"error"}
       /\ futures[output_file.list[k].origin].outcome = "raise"

(***************************************************************************)
(* The key-removal script (test.py): process_json_file loads a JSON file,  *)
(* removes the keys of KEYS_TO_REMOVE and saves the file when a key was    *)
(* removed.  Python values are written as JSON values, with dictionaries,  *)
(* tuples and booleans added.                                              *)
(***************************************************************************)
PyDict(f) == [dict |-> f]

PyTuple(xs) == [tuple |-> xs]

PyBool(b) == [bool |-> b]

IsDict(v) == DOMAIN v = {"dict"}

IsTuple(v) == DOMAIN v = {"tuple"}

\* line 8
KEYS_TO_REMOVE == <<"decision", "reason">>

RECURSIVE remove_keys_from_dict(_, _), remove_keys_from_list(_, _)
\* lines 13-33: the keys are deleted, then every value that is a dictionary
\* or a list is replaced by what the call on it returns; the call returns
\* the pair of the dictionary and the keys deleted from it
remove_keys_from_dict(data_dict, keys_to_remove) ==
  IF ~IsDict(data_dict) THEN data_dict
  ELSE
    LET Found(key) == key \in DOMAIN data_dict.dict
        keys_found_and_removed == SelectSeq(keys_to_remove, Found)
        remaining == DOMAIN data_dict.dict \ { keys_to_remove[k] : k \in DOMAIN keys_to_remove }
    IN PyTuple(<< PyDict([key \in remaining |->
                            Bind(data_dict.dict[key], LAMBDA value :
                              IF IsDict(value) THEN remove_keys_from_dict(value, keys_to_remove)
                              ELSE IF IsList(value) THEN remove_keys_from_list(value, keys_to_remove)
                              ELSE value)]),
                  JList([k \in DOMAIN keys_found_and_removed |->
                           JStr(keys_found_and_removed[k])]) >>)

\* lines 35-57: the pair of the processed list and the flag; the flag of a
\* nested list is dropped (line 53)
remove_keys_from_list(data_list, keys_to_remove) ==
  IF ~IsList(data_list) THEN data_list
  ELSE
    Bind([k \in DOMAIN data_list.list |->
            Bind(data_list.list[k], LAMBDA item :
              IF IsDict(item)
              THEN Bind(remove_keys_from_dict(item, keys_to_remove), LAMBDA r :
                     [processed |-> r.tuple[1], removed |-> r.tuple[2] # JList(<<>>)])
              ELSE IF IsList(item)
              THEN Bind(remove_keys_from_list(item, keys_to_remove), LAMBDA r :
                     [processed |-> r.tuple[1], removed |-> FALSE])
              ELSE [processed |-> item, removed |-> FALSE])],
         LAMBDA items :
           PyTuple(<< JList([k \in DOMAIN items |-> items[k].processed]),
                      PyBool(\E k \in DOMAIN items : items[k].removed) >>))

RECURSIVE json_dump(_)
\* json.dump: a tuple is written as an array
json_dump(v) ==
  IF IsDict(v) THEN PyDict([key \in DOMAIN v.dict |-> json_dump(v.dict[key])])
  ELSE IF IsList(v) THEN JList([k \in DOMAIN v.list |-> json_dump(v.list[k])])
  ELSE IF IsTuple(v) THEN JList([k \in DOMAIN v.tuple |-> json_dump(v.tuple[k])])
  ELSE v

\* the contents of a file: blank, text that is not JSON, a file that cannot
\* be read, or the text of a JSON value
Blank == [kind |-> "blank"]

NotJson == [kind |-> "not json"]

CannotBeRead == [kind |-> "unreadable"]

JsonText(v) == [kind |-> "json", value |-> v]

(***************************************************************************)
(* Bounds of the documents.                                                *)
(***************************************************************************)
MaxDepth == 2

Leaves == {JStr("x")}

\* a dictionary with some of the keys to remove and, with <<v>>, the key
\* "note" holding v
MkDict(removable, note) ==
  PyDict([key \in removable \cup (IF note = <<>> THEN {} ELSE {"note"}) |->
            IF key = "note" THEN note[1] ELSE JStr("ACCEPTED")])

RECURSIVE Documents(_)
\* the JSON values of at most d levels of dictionaries and lists
Documents(d) ==
  IF d = 0 THEN Leaves
  ELSE Bind(Documents(d - 1), LAMBDA inner :
         inner
         \cup { MkDict(removable, note) :
                  removable \in SUBSET {"decision", "reason"},
                  note \in {<<>>} \cup { <<v>> : v \in inner } }
         \cup {JList(<<>>)}
         \cup { JList(<<v>>) : v \in inner }
         \cup { JList(<<v, w>>) : v \in inner, w \in inner })

Files == {Blank, NotJson, CannotBeRead} \cup { JsonText(v) : v \in Documents(MaxDepth) }

InitClean ==
  /\ ClassifierIdle
  /\ DriverIdle
  /\ SelectionIdle
  /\ DeriveIdle
  /\ LabelIdle
  /\ food_item_key = ""
  /\ file_content \in Files
  /\ original_content = file_content
  /\ outcome = "not processed"

\* lines 80-93: the removal at the root and the flag that decides the save
Removal(data) ==
  IF IsList(data)
  THEN Bind(remove_keys_from_list(data, KEYS_TO_REMOVE), LAMBDA r :
         [modified_data |-> r.tuple[1], keys_removed_overall |-> r.tuple[2].bool])
  ELSE Bind(remove_keys_from_dict(data, KEYS_TO_REMOVE), LAMBDA r :
         [modified_data |-> r.tuple[1], keys_removed_overall |-> r.tuple[2] # JList(<<>>)])

\* lines 60-103; the write of lines 96-99 is taken to succeed
process_json_file ==
  /\ outcome = "not processed"
  /\ IF file_content = CannotBeRead
     THEN outcome' = "skipped: read error" /\ UNCHANGED file_content
     ELSE IF file_content = Blank
     THEN outcome' = "skipped: empty" /\ UNCHANGED file_content
     ELSE IF file_content = NotJson
     THEN outcome' = "skipped: decode error" /\ UNCHANGED file_content
     ELSE IF ~(IsList(file_content.value) \/ IsDict(file_content.value))
     THEN outcome' = "skipped: root is not a list or dict" /\ UNCHANGED file_content
     ELSE \E r \in {Removal(file_content.value)} :
            IF r.keys_removed_overall
            THEN /\ file_content' = JsonText(json_dump(r.modified_data))
                 /\ outcome' = "saved"
            ELSE /\ outcome' = "file unchanged"
                 /\ UNCHANGED file_content
  /\ UNCHANGED <<original_content, food_item_key, classifier_vars, driver_vars,
                 selection_vars, derive_vars, label_vars>>

NextClean == process_json_file

SpecClean == InitClean /\ [][NextClean]_vars

RECURSIVE Stripped(_)
\* the value v without the keys to remove, at every depth
Stripped(v) ==
  IF IsDict(v)
  THEN PyDict([key \in DOMAIN v.dict \ {"decision", "reason"} |-> Stripped(v.dict[key])])
  ELSE IF IsList(v) THEN JList([k \in DOMAIN v.list |-> Stripped(v.list[k])])
  ELSE v

Processed == outcome \in {"saved", "file unchanged"}

\* C30 as stated: after processing a JSON document, the file holds the
\* document without the keys of KEYS_TO_REMOVE at any depth, every other key
\* with its original value, nested dictionaries and lists in their shape,
\* and the file has been rewritten whenever a key was to be removed at any
\* depth
C30_AsStated ==
  Processed =>
    /\ file_content = JsonText(Stripped(original_content.value))
    /\ Stripped(original_content.value) # original_content.value => outcome = "saved"

====
